---- MODULE Spec2Model ----
(***************************************************************************)
(* Protocol engine of the HANA client driver: request building, the       *)
(* request/reply round trip on a shared connection, the general reply     *)
(* dispatcher, and the prepared-statement state machine.                  *)
(*                                                                         *)
(* Every critical section of the connection mutex (conn_ref.lock() up to  *)
(* the drop of the guard) is one atomic action; the states between two    *)
(* actions of a thread are the states in which the mutex is free.         *)
(***************************************************************************)
EXTENDS Integers, Sequences, FiniteSets, TLC

\* ------------------------------------------------------------------ bounds
MaxCalls == 2        \* calls started per behaviour of Spec and SpecConc
MaxSsiCalls == 3     \* calls started per behaviour of SpecSsi
MaxParts == 2        \* parts per reply of the unconstrained server
MaxStmtCalls == 3    \* requests written per behaviour of SpecPS
MaxRows == 3         \* rows behind a cursor
MaxCursorCalls == 3  \* requests written per behaviour of SpecRS
MaxLobLength == 4    \* CESU-8 units of a stored NCLOB value
MaxReadLength == 2   \* the largest LOB read length a connection is set to
MaxBatch == 2        \* rows held by a batch
MaxSize == 40        \* the largest size padsize is applied to
MaxFields == 2       \* fields of a parameter row

Threads == {1, 2}

\* ----------------------------------------------------------------- helpers
Last(s) == s[Len(s)]
Front(s) == SubSeq(s, 1, Len(s) - 1)
SeqsUpTo(S, n) == UNION {[1..k -> S] : k \in 0..n}

\* Option<T>: <<>> is None, <<x>> is Some(x)
None == <<>>
Some(x) == <<x>>

\* Vec::reverse
reverse(s) == [i \in 1..Len(s) |-> s[Len(s) + 1 - i]]

\* Vec::swap_remove: the element at idx is replaced by the last element
swap_remove(s, idx) ==
    IF idx = Len(s) THEN Front(s) ELSE [Front(s) EXCEPT ![idx] = Last(s)]

\* A part: its kind and its argument (every argument is a sequence of numbers)
Part(k, a) == [kind |-> k, arg |-> a]

\* --------------------------------------------------------------- reply types
ClassifiedReplyTypes ==
    {"Select", "SelectForUpdate", "Ddl", "Commit", "Rollback",
     "Insert", "Update", "Delete", "DbProcedureCall", "DbProcedureCallWithResult"}

OtherReplyTypes ==
    {"Nil", "Connect", "Fetch", "ReadLob", "CloseCursor", "Disconnect",
     "FindLob", "WriteLob", "Explain", "XaStart", "XaJoin", "XAControl",
     "XAPrepare", "XARecover"}

ReplyType == ClassifiedReplyTypes \cup OtherReplyTypes

\* the request types that are sent
RequestType ==
    {"ExecuteDirect", "Prepare", "Execute", "DropStatementId", "FetchNext",
     "CloseResultSet", "ReadLob"}

\* Transaction flags, as numbers
WriteTransactionStarted == 1
Committed == 2
RolledBack == 3

\* PartAttributes::new(0b_0000_0100)
FirstPacketAttributes == 4

\* ------------------------------------------------------------------- state
VARIABLES
    seq_number,      \* ConnCore: last packet sequence number handed out
    ssi,             \* ConnCore: Option<statement sequence info>
    ta_state,        \* ConnCore: transaction state
    outbound,        \* stream: requests written, not yet answered
    inbound,         \* stream: header and part items written by the server
    broken,          \* stream: the socket failed
    pc,              \* per thread: position in its call
    op,              \* per thread: the call and its inputs
    request,         \* per thread: the Request under construction / sent
    reply,           \* per thread: the Reply being digested
    int_return_values, \* per thread: Vec<InternalReturnValue>
    result,          \* per thread: what the call returned
    locals,          \* per thread: locals of PreparedStatement::try_new
    ps,              \* the PreparedStatement
    calls,           \* number of requests written
    wire_seqs,       \* history: sequence numbers in wire order
    parsed,          \* history, per thread: the reply as Reply::parse built it
    digested,        \* history, per thread: parts handed to the digest loop
    echo,            \* history: SSI carried by the last reply read since the last
                     \* request; SSI carried by, and SSI owed by, the last request
    batch_log,       \* history: rows accepted by add_* since the last request of
                     \* execute_batch; rows of that request; rows it had to send
    wire_reqs,       \* history: the requests in wire order, with their writers
    unread,          \* history, per thread: parts its reply held when dropped
    lob_read_length, \* ConnCore: the configured LOB read length
    rs,              \* the ResultSet
    lob,             \* the LOB handle
    server,          \* server: the rows behind the cursor, the stored LOB value
    codec            \* the call of a function of the wire format: its input,
                     \* and what it wrote and returned

conn_vars == <<seq_number, ssi, ta_state>>
stream_vars == <<outbound, inbound, broken>>
thread_vars == <<pc, op, request, reply, int_return_values, result, locals>>
hist_vars == <<wire_seqs, parsed, digested, echo, batch_log, wire_reqs, unread>>
cursor_vars == <<lob_read_length, rs, lob, server>>
vars == <<conn_vars, stream_vars, thread_vars, ps, calls, hist_vars, cursor_vars, codec>>

NoOp == [name |-> "none", expected_fc |-> "None", after_dbmessage |-> FALSE]
NoRequest == [type |-> "none", parts |-> <<>>]
NoReply == [type |-> "none", seq |-> 0, parts |-> <<>>]
NoResult == [kind |-> "none", vals |-> <<>>, errs |-> <<>>]
NoLocals == [o_stmt_id |-> None, o_par_md |-> None, o_rs_md |-> None]
NoStatement ==
    [state |-> "none", statement_id |-> 0, o_par_md |-> None,
     o_input_md |-> None, o_rs_md |-> None, o_batch |-> None]
NoEcho == [pending |-> None, sent |-> None, expected |-> None]
NoResultSet == [state |-> "none", id |-> 0, rows |-> 0, attributes |-> 0]
NoLob ==
    [locator_id |-> 0, total |-> 0, buffer |-> <<>>, acc |-> 0, is_last_data |-> TRUE,
     sink |-> <<>>, want |-> 0, max_size |-> 0]
NoServer == [rows |-> 0, lob |-> <<>>]
NoCodec == [call |-> "none"]

\* the connection and the callers right after the connection is set up
InitConnection ==
    /\ seq_number = 0
    /\ ssi = None
    /\ ta_state = "Initial"
    /\ outbound = <<>>
    /\ inbound = <<>>
    /\ broken = FALSE
    /\ pc = [t \in Threads |-> "idle"]
    /\ op = [t \in Threads |-> NoOp]
    /\ request = [t \in Threads |-> NoRequest]
    /\ reply = [t \in Threads |-> NoReply]
    /\ int_return_values = [t \in Threads |-> <<>>]
    /\ result = [t \in Threads |-> NoResult]
    /\ locals = [t \in Threads |-> NoLocals]
    /\ ps = NoStatement
    /\ calls = 0
    /\ wire_seqs = <<>>
    /\ parsed = [t \in Threads |-> NoReply]
    /\ digested = [t \in Threads |-> <<>>]
    /\ echo = NoEcho
    /\ batch_log = [accepted |-> <<>>, sent |-> <<>>, owed |-> <<>>]
    /\ wire_reqs = <<>>
    /\ unread = [t \in Threads |-> <<>>]

Init ==
    /\ InitConnection
    /\ lob_read_length = 0
    /\ rs = NoResultSet
    /\ lob = NoLob
    /\ server = NoServer
    /\ codec = NoCodec

\* ------------------------------------------------------------ results
Ok(kind, vals) == [kind |-> kind, vals |-> vals, errs |-> <<>>]
Err(kind, errs) == [kind |-> kind, vals |-> <<>>, errs |-> errs]
Outcomes == {"ResultSet", "RowsAffected", "Success", "MultipleReturnValues", "Unit"}
IsOutcome(r) == r.kind \in Outcomes

\* A thread can start a call when it has none running
Ready(t) == pc[t] \in {"idle", "done"}

\* ------------------------------------------------------------ connection core
\* ConnCore::next_seq_number: increment and return
next_seq_number(n) == n + 1

\* ConnCore::set_ssi
set_ssi(o_ssi) == o_ssi

\* ConnCore::set_transaction_state, for one flag
set_transaction_state(state, ta_flag) ==
    CASE ta_flag = WriteTransactionStarted -> "OpenWithWrite"
      [] ta_flag = Committed -> "Committed"
      [] ta_flag = RolledBack -> "RolledBack"
      [] OTHER -> state

\* of the flags of a part only the first one is applied
apply_ta_flags_first(state, vec) ==
    IF vec = <<>> THEN state ELSE set_transaction_state(state, Head(vec))

\* the flags of one TransactionFlags part, applied in the order of the vector
RECURSIVE apply_ta_flags(_, _)
apply_ta_flags(state, vec) ==
    IF vec = <<>> THEN state
    ELSE apply_ta_flags(set_transaction_state(state, Head(vec)), Tail(vec))

\* ------------------------------------------------------------ Request
\* an add_ssi that pushes nothing
add_ssi_nothing(conn_ssi) == <<>>

\* an add_ssi that pushes a StatementContext part whatever the connection holds
add_ssi_always(conn_ssi) == <<Part("StatementContext", conn_ssi)>>

\* Request::add_ssi: the parts of a fresh request
add_ssi(conn_ssi) ==
    IF conn_ssi = None THEN <<>>
    ELSE <<Part("StatementContext", conn_ssi)>>

\* Request::new followed by Request::push of each of `pushed`
Request_new(request_type, pushed) ==
    [type |-> request_type, parts |-> add_ssi(ssi) \o pushed]

\* The SSI a request carries in a StatementContext part, None if it has none
RequestSsi(req) ==
    LET idx == {i \in 1..Len(req.parts) : req.parts[i].kind = "StatementContext"}
    IN  IF idx = {} THEN None ELSE req.parts[CHOOSE i \in idx : \A j \in idx : i <= j].arg

\* Connection::exec / query / dml: build the request of a direct statement
CallExecWithin(t, max_calls) ==
    /\ Ready(t)
    /\ calls < max_calls
    /\ \E fc \in {"None", "Select"} :
          op' = [op EXCEPT ![t] = [name |-> "exec", expected_fc |-> fc,
                                   after_dbmessage |-> result[t].kind = "DbMessage"]]
    /\ request' = [request EXCEPT ![t] =
                      Request_new("ExecuteDirect", <<Part("Command", <<1>>)>>)]
    /\ pc' = [pc EXCEPT ![t] = "serialize"]
    /\ result' = [result EXCEPT ![t] = NoResult]
    /\ int_return_values' = [int_return_values EXCEPT ![t] = <<>>]
    /\ parsed' = [parsed EXCEPT ![t] = NoReply]
    /\ digested' = [digested EXCEPT ![t] = <<>>]
    /\ unread' = [unread EXCEPT ![t] = <<>>]
    /\ calls' = calls + 1
    /\ UNCHANGED <<cursor_vars, codec>>
    /\ UNCHANGED <<conn_vars, stream_vars, reply, locals, ps,
                   wire_seqs, echo, batch_log, wire_reqs>>

CallExec(t) == CallExecWithin(t, MaxCalls)

\* rows of the Parameters part of a request
RequestRows(req) ==
    LET idx == {i \in 1..Len(req.parts) : req.parts[i].kind = "Parameters"}
    IN  IF idx = {} THEN <<>> ELSE req.parts[CHOOSE i \in idx : TRUE].arg

\* the statement id a request carries, 0 if it carries none
RequestStatementId(req) ==
    LET idx == {i \in 1..Len(req.parts) : req.parts[i].kind = "StatementId"}
    IN  IF idx = {} THEN 0 ELSE req.parts[CHOOSE i \in idx : TRUE].arg[1]

\* a serialize that hands out the current number without advancing the counter
serialize_seq_number_stale(n) == n

\* the sequence number Request::serialize passes to serialize_impl
serialize_seq_number(n) == next_seq_number(n)

\* Request::serialize: under the lock, take the next sequence number and
\* write the message to the stream; what is written to a failed socket
\* reaches nobody
serialize(t) ==
    /\ pc[t] = "serialize"
    /\ seq_number' = serialize_seq_number(seq_number)
    /\ outbound' = IF broken THEN outbound
                   ELSE Append(outbound,
                               [seq |-> seq_number', type |-> request[t].type,
                                parts |-> request[t].parts])
    /\ wire_seqs' = Append(wire_seqs, seq_number')
    /\ wire_reqs' = Append(wire_reqs,
                           [seq |-> seq_number', type |-> request[t].type,
                            stmt |-> RequestStatementId(request[t]), by |-> t])
    /\ echo' = [pending |-> None, sent |-> RequestSsi(request[t]),
                expected |-> echo.pending]
    /\ batch_log' = IF op[t].name = "execute_batch"
                    THEN [accepted |-> <<>>, sent |-> RequestRows(request[t]),
                          owed |-> batch_log.accepted]
                    ELSE batch_log
    /\ pc' = [pc EXCEPT ![t] = "parse"]
    /\ UNCHANGED <<ssi, ta_state, inbound, broken, op, request, reply,
                   int_return_values, result, locals, ps, calls, cursor_vars, codec, parsed, digested,
                   unread>>

\* ------------------------------------------------------------ server
\* What the server may put into replies
RowsAffectedPart == Part("RowsAffected", <<1>>)
OutputParametersPart == Part("OutputParameters", <<5>>)
ResultSetPart == Part("ResultSet", <<7, 1, 3>>)       \* id, attributes, metadata
ResultSetMetadataPart == Part("ResultSetMetadata", <<3>>)
ResultSetIdPart == Part("ResultSetId", <<8>>)
TransactionFlagsPart == Part("TransactionFlags", <<WriteTransactionStarted, Committed>>)
ErrorPart == Part("Error", <<42>>)                    \* a vector of server errors
StatementContextParts == {Part("StatementContext", o) : o \in {None, Some(1), Some(2)}}

ReplyPartValues ==
    {RowsAffectedPart, OutputParametersPart, ResultSetPart, ResultSetMetadataPart,
     ResultSetIdPart, TransactionFlagsPart, ErrorPart} \cup StatementContextParts

CountKind(parts, k) == Cardinality({i \in 1..Len(parts) : parts[i].kind = k})

\* A reply holds at most one StatementContext part and at most one Error part
WellFormedParts(parts) ==
    /\ CountKind(parts, "StatementContext") <= 1
    /\ CountKind(parts, "Error") <= 1

\* The replies of a server that is free in what it answers
AnyReplies ==
    [rt \in RequestType |->
        {[type |-> ty, parts |-> p] :
            ty \in ReplyType,
            p \in {q \in SeqsUpTo(ReplyPartValues, MaxParts) : WellFormedParts(q)}}]

HeaderItem(seq, ty, n) ==
    [item |-> "header", seq |-> seq, type |-> ty, n |-> n, kind |-> "", arg |-> <<>>]
PartItem(p) ==
    [item |-> "part", seq |-> 0, type |-> "", n |-> 0, kind |-> p.kind, arg |-> p.arg]

\* The message the server writes: header items, then one item per part
Frame(seq, rep) ==
    <<HeaderItem(seq, rep.type, Len(rep.parts))>>
        \o [i \in 1..Len(rep.parts) |-> PartItem(rep.parts[i])]

\* The server answers the oldest unanswered request, mirroring its sequence
\* number; nothing arrives over a failed socket
ServerReply(Replies) ==
    /\ ~broken
    /\ outbound # <<>>
    /\ \E rep \in Replies[Head(outbound).type] :
          inbound' = inbound \o Frame(Head(outbound).seq, rep)
    /\ outbound' = Tail(outbound)
    /\ UNCHANGED <<conn_vars, broken, thread_vars, ps, calls, cursor_vars, codec, hist_vars>>

\* ------------------------------------------------------------ Reply
\* position of the first part of kind Error, 0 if there is none
error_position(parts) ==
    LET idx == {i \in 1..Len(parts) : parts[i].kind = "Error"}
    IN  IF idx = {} THEN 0 ELSE CHOOSE i \in idx : \A j \in idx : i <= j

\* an assert_no_error that looks at the first part only
assert_no_error_first_part(rep) ==
    IF rep.parts = <<>> \/ rep.parts[1].kind # "Error"
    THEN [ok |-> TRUE, err |-> NoResult, parts |-> rep.parts]
    ELSE [ok |-> FALSE, err |-> Err("DbMessage", rep.parts[1].arg),
          parts |-> swap_remove(rep.parts, 1)]

\* Reply::assert_no_error: the first Error part is removed and raised
assert_no_error(rep) ==
    LET idx == error_position(rep.parts)
    IN  IF idx = 0
        THEN [ok |-> TRUE, err |-> NoResult, parts |-> rep.parts]
        ELSE [ok |-> FALSE, err |-> Err("DbMessage", rep.parts[idx].arg),
              parts |-> swap_remove(rep.parts, idx)]

\* Reply::assert_expected_fc
assert_expected_fc(rep, expected_fc) ==
    IF expected_fc = "None" THEN TRUE ELSE rep.type = expected_fc

\* The SSI a reply carries, None if it carries none
ReplySsi(rep) ==
    LET idx == {i \in 1..Len(rep.parts) : rep.parts[i].kind = "StatementContext"}
    IN  IF idx = {} THEN None ELSE rep.parts[CHOOSE i \in idx : TRUE].arg

\* Reply::parse on a stream that starts with a message header: the header and
\* no_of_parts parts are read
parse_reply(stream) ==
    LET h == Head(stream)
    IN  [type |-> h.type, seq |-> h.seq,
         parts |-> [i \in 1..h.n |-> Part(stream[i + 1].kind, stream[i + 1].arg)]]

\* a Reply::parse that stops reading at an Error part
parse_rest_stop_at_error(stream) ==
    LET n == Head(stream).n
        idx == {i \in 1..n : stream[i + 1].kind = "Error"}
        last == IF idx = {} THEN n ELSE CHOOSE i \in idx : \A j \in idx : i <= j
    IN  SubSeq(stream, last + 2, Len(stream))

\* what Reply::parse leaves in the stream
parse_rest(stream) == SubSeq(stream, Head(stream).n + 2, Len(stream))

\* where a call continues once send_and_receive_detailed has returned Ok
AfterReceive(name) ==
    CASE name = "prepare" -> "try_new"
      [] name = "drop" -> "drop"
      [] name = "next_row" -> "fetch"
      [] name = "close" -> "close"
      [] name = "read" -> "read_lob"
      [] OTHER -> "digest"

\* a statement drop that hands the error of its round trip to the caller
AfterError_propagated(name) == "done"

\* where a call continues once send_and_receive_detailed has returned Err:
\* every caller propagates the error with `?`, PreparedStatement::drop does not
AfterError(name) == IF name = "drop" THEN "drop" ELSE "done"

\* the parts as the next step of the call wants them:
\* send_and_get_response reverses them before it pops
PartsAfterReceive(name, parts) ==
    IF AfterReceive(name) = "digest" THEN reverse(parts) ELSE parts

\* Request::send_and_receive_detailed after serialize: Reply::parse under the
\* lock, then assert_no_error and assert_expected_fc
send_and_receive_detailed(t) ==
    /\ pc[t] = "parse"
    /\ IF broken
       THEN \* the read fails
            /\ result' = [result EXCEPT ![t] = Err("Io", <<>>)]
            /\ pc' = [pc EXCEPT ![t] = AfterError(op[t].name)]
            /\ UNCHANGED <<inbound, reply, parsed, echo, unread>>
       ELSE /\ inbound # <<>>
            /\ IF Head(inbound).item # "header"
               THEN \* the stream is not at a frame boundary
                    /\ inbound' = Tail(inbound)
                    /\ \E next \in {"done", "aborted"} :
                          /\ pc' = [pc EXCEPT ![t] =
                                IF next = "done" THEN AfterError(op[t].name) ELSE next]
                          /\ result' = [result EXCEPT ![t] =
                                IF next = "done" THEN Err("Protocol", <<>>)
                                ELSE NoResult]
                    /\ UNCHANGED <<reply, parsed, echo, unread>>
               ELSE /\ Len(inbound) >= Head(inbound).n + 1
                    /\ LET rep == parse_reply(inbound)
                           rest == parse_rest(inbound)
                           checked == assert_no_error(rep)
                       IN  \* the BufReader is dropped with what it has read ahead
                           /\ \E k \in 0..Len(rest) :
                                 inbound' = SubSeq(rest, k + 1, Len(rest))
                           /\ parsed' = [parsed EXCEPT ![t] = rep]
                           /\ echo' = [echo EXCEPT !.pending = ReplySsi(rep)]
                           /\ IF ~checked.ok
                              THEN /\ result' = [result EXCEPT ![t] = checked.err]
                                   /\ pc' = [pc EXCEPT ![t] = AfterError(op[t].name)]
                                   /\ reply' = [reply EXCEPT ![t] = NoReply]
                                   /\ unread' = [unread EXCEPT ![t] = checked.parts]
                              ELSE IF ~assert_expected_fc(rep, op[t].expected_fc)
                              THEN /\ result' = [result EXCEPT ![t] =
                                                    Err("Protocol", <<>>)]
                                   /\ pc' = [pc EXCEPT ![t] = AfterError(op[t].name)]
                                   /\ reply' = [reply EXCEPT ![t] = NoReply]
                                   /\ unread' = [unread EXCEPT ![t] = rep.parts]
                              ELSE /\ result' = result
                                   /\ unread' = unread
                                   /\ pc' = [pc EXCEPT ![t] = AfterReceive(op[t].name)]
                                   /\ reply' = [reply EXCEPT ![t] =
                                         [rep EXCEPT !.parts =
                                             PartsAfterReceive(op[t].name, rep.parts)]]
    /\ UNCHANGED <<conn_vars, outbound, broken, op, request, int_return_values,
                   locals, ps, calls, cursor_vars, codec, wire_seqs, digested, batch_log, wire_reqs>>

\* ------------------------------------------------------------ dispatcher
InternalReturnValue(k, a) == [kind |-> k, arg |-> a]

\* a result set that is handed over with the attributes of a last packet
resultset_new_last_packet(rs_id, rsm) == <<rs_id[1], 1, rsm[1], 0>>

\* ResultSetFactory::resultset_new(conn, PartAttributes(0b100), rs_id, rsm, None):
\* the id, the attributes, the metadata and the number of rows it holds
resultset_new(rs_id, rsm) == <<rs_id[1], FirstPacketAttributes, rsm[1], 0>>

\* One turn of `while let Some(part) = reply.parts.pop()` in
\* send_and_get_response
digest_part(t) ==
    /\ pc[t] = "digest"
    /\ reply[t].parts # <<>>
    /\ LET part == Last(reply[t].parts)
           rest == Front(reply[t].parts)
       IN  /\ digested' = [digested EXCEPT ![t] = Append(@, part)]
           /\ CASE part.kind = "RowsAffected" ->
                    /\ int_return_values' = [int_return_values EXCEPT ![t] =
                          Append(@, InternalReturnValue("AffectedRows", part.arg))]
                    /\ reply' = [reply EXCEPT ![t].parts = rest]
                    /\ UNCHANGED <<ssi, ta_state, pc>>
                [] part.kind = "StatementContext" ->
                    /\ ssi' = set_ssi(part.arg)
                    /\ reply' = [reply EXCEPT ![t].parts = rest]
                    /\ UNCHANGED <<ta_state, int_return_values, pc>>
                [] part.kind = "TransactionFlags" ->
                    /\ ta_state' = apply_ta_flags(ta_state, part.arg)
                    /\ reply' = [reply EXCEPT ![t].parts = rest]
                    /\ UNCHANGED <<ssi, int_return_values, pc>>
                [] part.kind = "ResultSet" /\ part.arg # None ->
                    /\ int_return_values' = [int_return_values EXCEPT ![t] =
                          Append(@, InternalReturnValue("ResultSet", part.arg))]
                    /\ reply' = [reply EXCEPT ![t].parts = rest]
                    /\ UNCHANGED <<ssi, ta_state, pc>>
                [] part.kind = "OutputParameters" ->
                    /\ int_return_values' = [int_return_values EXCEPT ![t] =
                          Append(@, InternalReturnValue("OutputParameters", part.arg))]
                    /\ reply' = [reply EXCEPT ![t].parts = rest]
                    /\ UNCHANGED <<ssi, ta_state, pc>>
                [] part.kind = "ResultSetMetadata" ->
                    IF rest # <<>> /\ Last(rest).kind = "ResultSetId"
                    THEN /\ int_return_values' = [int_return_values EXCEPT ![t] =
                               Append(@, InternalReturnValue("ResultSet",
                                            resultset_new(Last(rest).arg, part.arg)))]
                         /\ reply' = [reply EXCEPT ![t].parts = Front(rest)]
                         /\ UNCHANGED <<ssi, ta_state, pc>>
                    ELSE \* panic!: the thread unwinds, the reply is dropped
                         /\ pc' = [pc EXCEPT ![t] = "aborted"]
                         /\ reply' = [reply EXCEPT ![t] = NoReply]
                         /\ UNCHANGED <<ssi, ta_state, int_return_values>>
                [] OTHER -> \* warn!
                    /\ reply' = [reply EXCEPT ![t].parts = rest]
                    /\ UNCHANGED <<ssi, ta_state, int_return_values, pc>>
           /\ unread' = [unread EXCEPT ![t] =
                 IF part.kind = "ResultSetMetadata"
                    /\ ~(rest # <<>> /\ Last(rest).kind = "ResultSetId")
                 THEN IF rest = <<>> THEN <<>> ELSE Front(rest)
                 ELSE @]
    /\ UNCHANGED <<seq_number, stream_vars, op, request, result, locals, ps, calls, cursor_vars, codec,
                   wire_seqs, parsed, echo, batch_log, wire_reqs>>

\* a classification that takes Commit for a data manipulation
response_factory_commit(ty) ==
    CASE ty \in {"Select", "SelectForUpdate"} -> "resultset"
      [] ty \in {"Ddl", "Rollback"} -> "success"
      [] ty \in {"Insert", "Update", "Delete", "Commit"} -> "rows_affected"
      [] ty \in {"DbProcedureCall", "DbProcedureCallWithResult"} ->
            "multiple_return_values"
      [] OTHER -> "unexpected"

\* a classification that lets the Fetch reply type through as a success
response_factory_fetch(ty) ==
    CASE ty \in {"Select", "SelectForUpdate"} -> "resultset"
      [] ty \in {"Ddl", "Commit", "Rollback", "Fetch"} -> "success"
      [] ty \in {"Insert", "Update", "Delete"} -> "rows_affected"
      [] ty \in {"DbProcedureCall", "DbProcedureCallWithResult"} ->
            "multiple_return_values"
      [] OTHER -> "unexpected"

\* The factory that send_and_get_response picks for a reply type
response_factory(ty) ==
    CASE ty \in {"Select", "SelectForUpdate"} -> "resultset"
      [] ty \in {"Ddl", "Commit", "Rollback"} -> "success"
      [] ty \in {"Insert", "Update", "Delete"} -> "rows_affected"
      [] ty \in {"DbProcedureCall", "DbProcedureCallWithResult"} ->
            "multiple_return_values"
      [] OTHER -> "unexpected"

\* HdbResponseFactory: the outcome each factory builds from the collected values
HdbResponseFactory(factory, irvs) ==
    CASE factory = "resultset" -> Ok("ResultSet", irvs)
      [] factory = "success" -> Ok("Success", irvs)
      [] factory = "rows_affected" -> Ok("RowsAffected", irvs)
      [] OTHER -> Ok("MultipleReturnValues", irvs)

\* The `match reply.type_` of send_and_get_response
HdbResponse(ty, irvs) ==
    IF response_factory(ty) = "unexpected"
    THEN Err("InternalEvaluationError", <<>>)
    ELSE HdbResponseFactory(response_factory(ty), irvs)

\* The end of send_and_get_response: all parts are digested, the collected
\* values are re-packed according to the reply type
build_response(t) ==
    /\ pc[t] = "digest"
    /\ reply[t].parts = <<>>
    /\ result' = [result EXCEPT ![t] =
          HdbResponse(reply[t].type, int_return_values[t])]
    /\ reply' = [reply EXCEPT ![t] = NoReply]
    /\ pc' = [pc EXCEPT ![t] = "done"]
    /\ UNCHANGED <<conn_vars, stream_vars, op, request, int_return_values, locals,
                   ps, calls, cursor_vars, codec, hist_vars>>

\* ------------------------------------------------------------ PreparedStatement
\* ParameterDirection
Direction_IN == 1
Direction_INOUT == 2
Direction_OUT == 4

\* what callers pass to add_batch, add_row_to_batch and execute; 0 stands for
\* an input that the conversion against the descriptors rejects
Inputs == {0, 1, 2}

\* serde_db::ser::to_params followed by ParameterRow::new
to_parameter_row(input, metadata) ==
    IF input = 0 THEN [ok |-> FALSE, row |-> 0] ELSE [ok |-> TRUE, row |-> input]

\* ConnectionCore::evaluate_statement_context
evaluate_statement_context(stmt_ctx) == set_ssi(stmt_ctx)

\* ConnectionCore::evaluate_ta_flags
evaluate_ta_flags(state, ta_flags) == apply_ta_flags(state, ta_flags)

NewOp(t, name) ==
    [name |-> name, expected_fc |-> "None",
     after_dbmessage |-> result[t].kind = "DbMessage"]

\* what every call of a thread resets when it starts
StartCall(t, name) ==
    /\ op' = [op EXCEPT ![t] = NewOp(t, name)]
    /\ int_return_values' = [int_return_values EXCEPT ![t] = <<>>]
    /\ parsed' = [parsed EXCEPT ![t] = NoReply]
    /\ digested' = [digested EXCEPT ![t] = <<>>]
    /\ unread' = [unread EXCEPT ![t] = <<>>]
    /\ locals' = [locals EXCEPT ![t] = NoLocals]

\* Connection::prepare: the head of PreparedStatement::try_new, up to the send
CallPrepare(t) ==
    /\ Ready(t)
    /\ ps.state = "none"
    /\ calls < MaxStmtCalls
    /\ StartCall(t, "prepare")
    /\ request' = [request EXCEPT ![t] =
                      Request_new("Prepare", <<Part("Command", <<1>>)>>)]
    /\ pc' = [pc EXCEPT ![t] = "serialize"]
    /\ result' = [result EXCEPT ![t] = NoResult]
    /\ calls' = calls + 1
    /\ UNCHANGED <<cursor_vars, codec>>
    /\ UNCHANGED <<conn_vars, stream_vars, reply, ps, wire_seqs, echo, batch_log,
                   wire_reqs>>

\* One turn of `while !reply.parts.is_empty()` in PreparedStatement::try_new
try_new_part(t) ==
    /\ pc[t] = "try_new"
    /\ reply[t].parts # <<>>
    /\ LET part == Last(reply[t].parts)
       IN  /\ reply' = [reply EXCEPT ![t].parts = Front(@)]
           /\ digested' = [digested EXCEPT ![t] = Append(@, part)]
           /\ CASE part.kind = "ParameterMetadata" ->
                    /\ locals' = [locals EXCEPT ![t].o_par_md = Some(part.arg)]
                    /\ UNCHANGED <<ssi, ta_state>>
                [] part.kind = "StatementId" ->
                    /\ locals' = [locals EXCEPT ![t].o_stmt_id = Some(part.arg[1])]
                    /\ UNCHANGED <<ssi, ta_state>>
                [] part.kind = "TransactionFlags" ->
                    /\ ta_state' = evaluate_ta_flags(ta_state, part.arg)
                    /\ UNCHANGED <<ssi, locals>>
                [] part.kind = "ResultSetMetadata" ->
                    /\ locals' = [locals EXCEPT ![t].o_rs_md = Some(part.arg)]
                    /\ UNCHANGED <<ssi, ta_state>>
                [] part.kind = "StatementContext" ->
                    /\ ssi' = evaluate_statement_context(part.arg)
                    /\ UNCHANGED <<ta_state, locals>>
                [] OTHER -> \* warn!
                    UNCHANGED <<ssi, ta_state, locals>>
    /\ UNCHANGED <<seq_number, stream_vars, pc, op, request, int_return_values,
                   result, ps, calls, cursor_vars, codec, wire_seqs, parsed, echo, batch_log, wire_reqs,
                   unread>>

\* only the descriptors with direction IN are kept
input_metadata_in_only(metadata) ==
    [i \in 1..Cardinality({j \in 1..Len(metadata) : metadata[j] = Direction_IN})
        |-> Direction_IN]

\* the descriptors with direction IN or INOUT, in their order
RECURSIVE input_metadata(_)
input_metadata(metadata) ==
    IF metadata = <<>> THEN <<>>
    ELSE IF Head(metadata) \in {Direction_IN, Direction_INOUT}
         THEN <<Head(metadata)>> \o input_metadata(Tail(metadata))
         ELSE input_metadata(Tail(metadata))

\* input descriptors that exist whenever parameter metadata exists
o_input_md_of_kept_empty(o_par_md) ==
    IF o_par_md = None THEN None ELSE Some(input_metadata(o_par_md[1]))

\* o_input_md of PreparedStatement::try_new
o_input_md_of(o_par_md) ==
    IF o_par_md = None THEN None
    ELSE IF input_metadata(o_par_md[1]) # <<>>
         THEN Some(input_metadata(o_par_md[1]))
         ELSE None

\* The tail of PreparedStatement::try_new: the statement is built
try_new_finish(t) ==
    /\ pc[t] = "try_new"
    /\ reply[t].parts = <<>>
    /\ IF locals[t].o_stmt_id = None
       THEN /\ result' = [result EXCEPT ![t] = Err("Impl", <<>>)]
            /\ ps' = ps
       ELSE /\ result' = [result EXCEPT ![t] = Ok("Unit", <<>>)]
            /\ ps' = [state |-> "live",
                      statement_id |-> locals[t].o_stmt_id[1],
                      o_par_md |-> locals[t].o_par_md,
                      o_input_md |-> o_input_md_of(locals[t].o_par_md),
                      o_rs_md |-> locals[t].o_rs_md,
                      o_batch |-> IF locals[t].o_par_md # None THEN Some(<<>>)
                                  ELSE None]
    /\ reply' = [reply EXCEPT ![t] = NoReply]
    /\ pc' = [pc EXCEPT ![t] = "done"]
    /\ UNCHANGED <<conn_vars, stream_vars, op, request, int_return_values, locals,
                   calls, cursor_vars, codec, hist_vars>>

\* A call on the statement that returns without a round trip
ReturnLocally(t, name, res) ==
    /\ StartCall(t, name)
    /\ result' = [result EXCEPT ![t] = res]
    /\ pc' = [pc EXCEPT ![t] = "done"]
    /\ request' = [request EXCEPT ![t] = NoRequest]
    /\ UNCHANGED <<conn_vars, stream_vars, reply, calls, cursor_vars, codec, wire_seqs, echo, wire_reqs>>

\* a push that happens before the conversion result is looked at
push_row_unchecked(batch, par_row) == Append(batch, par_row.row)

\* `batch.push(ParameterRow::new(..)?)`: the `?` returns before the push
push_row(batch, par_row) ==
    IF par_row.ok THEN Append(batch, par_row.row) ELSE batch

\* PreparedStatement::add_batch
add_batch(t, input) ==
    /\ Ready(t)
    /\ ps.state = "live"
    /\ IF ps.o_input_md # None /\ ps.o_batch # None
       THEN LET par_row == to_parameter_row(input, ps.o_input_md[1])
            IN  IF par_row.ok
                THEN /\ Len(ps.o_batch[1]) < MaxBatch
                     /\ ps' = [ps EXCEPT !.o_batch = Some(push_row(@[1], par_row))]
                     /\ batch_log' = [batch_log EXCEPT
                                         !.accepted = Append(@, par_row.row)]
                     /\ ReturnLocally(t, "add_batch", Ok("Unit", <<>>))
                ELSE /\ ps' = [ps EXCEPT !.o_batch = Some(push_row(@[1], par_row))]
                     /\ UNCHANGED batch_log
                     /\ ReturnLocally(t, "add_batch", Err("Serialization", <<>>))
       ELSE /\ UNCHANGED <<ps, batch_log>>
            /\ ReturnLocally(t, "add_batch", Err("Serialization", <<>>))

\* PreparedStatement::add_row_to_batch
add_row_to_batch(t, row) ==
    /\ Ready(t)
    /\ ps.state = "live"
    /\ IF ps.o_input_md # None /\ ps.o_batch # None
       THEN LET par_row == to_parameter_row(row, ps.o_input_md[1])
            IN  IF par_row.ok
                THEN /\ Len(ps.o_batch[1]) < MaxBatch
                     /\ ps' = [ps EXCEPT !.o_batch = Some(push_row(@[1], par_row))]
                     /\ batch_log' = [batch_log EXCEPT
                                         !.accepted = Append(@, par_row.row)]
                     /\ ReturnLocally(t, "add_row_to_batch", Ok("Unit", <<>>))
                ELSE /\ ps' = [ps EXCEPT !.o_batch = Some(push_row(@[1], par_row))]
                     /\ UNCHANGED batch_log
                     /\ ReturnLocally(t, "add_row_to_batch",
                                      Err("Serialization", <<>>))
       ELSE /\ UNCHANGED <<ps, batch_log>>
            /\ ReturnLocally(t, "add_row_to_batch", Err("Serialization", <<>>))

\* PreparedStatement::execute_parameter_rows, up to the send
execute_parameter_rows(t, name, o_rows) ==
    /\ calls < MaxStmtCalls
    /\ StartCall(t, name)
    /\ request' = [request EXCEPT ![t] =
          Request_new("Execute",
                      <<Part("StatementId", <<ps.statement_id>>)>>
                          \o (IF o_rows = None THEN <<>>
                              ELSE <<Part("Parameters", o_rows[1])>>))]
    /\ pc' = [pc EXCEPT ![t] = "serialize"]
    /\ result' = [result EXCEPT ![t] = NoResult]
    /\ calls' = calls + 1
    /\ UNCHANGED <<cursor_vars, codec>>
    /\ UNCHANGED <<conn_vars, stream_vars, reply, wire_seqs, echo, wire_reqs>>

\* PreparedStatement::execute
execute(t, input) ==
    /\ Ready(t)
    /\ ps.state = "live"
    /\ UNCHANGED <<ps, batch_log>>
    /\ IF ps.o_input_md # None
       THEN LET par_row == to_parameter_row(input, ps.o_input_md[1])
            IN  IF par_row.ok
                THEN execute_parameter_rows(t, "execute", Some(<<par_row.row>>))
                ELSE ReturnLocally(t, "execute", Err("Serialization", <<>>))
       ELSE execute_parameter_rows(t, "execute", None)

\* an emptiness test that lets every batch pass
is_empty_never(rows1) == FALSE

\* Vec::is_empty
is_empty(rows1) == rows1 = <<>>

\* the batch that execute_batch leaves behind when it keeps the rows it sends
batch_after_swap_kept(rows1) == rows1

\* mem::swap(rows1, &mut rows2) with a fresh rows2: what is left in the batch
batch_after_swap(rows1) == <<>>

\* PreparedStatement::execute_batch
execute_batch(t) ==
    /\ Ready(t)
    /\ ps.state = "live"
    /\ UNCHANGED batch_log
    /\ IF ps.o_batch # None
       THEN IF is_empty(ps.o_batch[1])
            THEN /\ ps' = ps
                 /\ ReturnLocally(t, "execute_batch", Err("Usage", <<>>))
            ELSE /\ ps' = [ps EXCEPT !.o_batch = Some(batch_after_swap(@[1]))]
                 /\ execute_parameter_rows(t, "execute_batch", Some(ps.o_batch[1]))
       ELSE /\ ps' = ps
            /\ ReturnLocally(t, "execute_batch", Err("Usage", <<>>))

\* Drop for PreparedStatement, up to the send
drop(t) ==
    /\ Ready(t)
    /\ ps.state = "live"
    /\ calls < MaxStmtCalls
    /\ StartCall(t, "drop")
    /\ request' = [request EXCEPT ![t] =
          Request_new("DropStatementId", <<Part("StatementId", <<ps.statement_id>>)>>)]
    /\ pc' = [pc EXCEPT ![t] = "serialize"]
    /\ result' = [result EXCEPT ![t] = NoResult]
    /\ calls' = calls + 1
    /\ UNCHANGED <<cursor_vars, codec>>
    /\ UNCHANGED <<conn_vars, stream_vars, reply, ps, wire_seqs, echo, batch_log,
                   wire_reqs>>

\* Parts::pop_arg_if_kind: the last part is popped if it is of that kind
pop_arg_if_kind(parts, kind) ==
    IF parts # <<>> /\ Last(parts).kind = kind THEN Front(parts) ELSE parts

\* Drop for PreparedStatement, after the send: an Ok reply loses its
\* StatementContext part, an Err is ignored; the statement is gone
drop_finish(t) ==
    /\ pc[t] = "drop"
    /\ LET left == pop_arg_if_kind(reply[t].parts, "StatementContext")
       IN  /\ digested' = [digested EXCEPT ![t] =
                              SubSeq(reply[t].parts, Len(left) + 1, Len(reply[t].parts))]
           /\ unread' = [unread EXCEPT ![t] =
                            IF reply[t] = NoReply THEN @ ELSE left]
    /\ reply' = [reply EXCEPT ![t] = NoReply]
    /\ result' = [result EXCEPT ![t] = Ok("Unit", <<>>)]
    /\ ps' = [ps EXCEPT !.state = "dropped"]
    /\ pc' = [pc EXCEPT ![t] = "done"]
    /\ UNCHANGED <<conn_vars, stream_vars, op, request, int_return_values, locals,
                   calls, cursor_vars, codec, wire_seqs, parsed, echo, batch_log, wire_reqs>>

\* The socket fails: what was in flight is lost, and the failure shows at the
\* next read
StreamBreak ==
    /\ ~broken
    /\ \E t \in Threads : pc[t] = "parse"
    /\ broken' = TRUE
    /\ inbound' = <<>>
    /\ outbound' = <<>>
    /\ UNCHANGED <<conn_vars, thread_vars, ps, calls, cursor_vars, codec, hist_vars>>

\* What the server answers to the requests of a prepared statement
ParameterMetadataParts ==
    {Part("ParameterMetadata", md) : md \in {<<Direction_IN>>, <<Direction_OUT>>,
                                             <<Direction_INOUT, Direction_OUT, Direction_IN>>}}

PrepareReplyParts ==
    {Part("StatementId", <<9>>), ErrorPart, Part("StatementContext", Some(1)),
     TransactionFlagsPart} \cup ParameterMetadataParts

ExecuteReplyParts ==
    {RowsAffectedPart, ErrorPart}

PreparedReplies ==
    [rt \in RequestType |->
        LET alphabet == CASE rt = "Prepare" -> PrepareReplyParts
                          [] rt = "Execute" -> ExecuteReplyParts
                          [] OTHER -> {ErrorPart, Part("StatementContext", Some(1))}
            ty == CASE rt = "Prepare" -> "Nil"
                    [] rt = "Execute" -> "Insert"
                    [] OTHER -> "Nil"
        IN  {[type |-> ty, parts |-> p] :
                p \in {q \in SeqsUpTo(alphabet, MaxParts) : WellFormedParts(q)}}]

\* ------------------------------------------------------------ ResultSet
\* PartAttributes: the last-packet bit
LastPacketAttributes == 1
is_last_packet(attributes) == attributes % 2 = 1

\* the fetch size of the connection
fetch_size == 2

\* Closed: the attributes indicate last-packet, or an explicit close was sent
is_closed(r) == is_last_packet(r.attributes) \/ r.state = "closed"

\* a fetch decision that does not look at the attributes
needs_fetch_eager(r) == r.rows = 0 /\ r.state = "open"

\* Open-Drained: the buffer is empty and the result set is not closed
needs_fetch(r) == r.rows = 0 /\ ~is_closed(r)

\* what a call on the result set or on the LOB handle resets when it starts
StartCursorCall(t, name) ==
    /\ Ready(t)
    /\ StartCall(t, name)
    /\ UNCHANGED <<conn_vars, stream_vars, reply, ps, wire_seqs, echo, batch_log,
                   wire_reqs, lob_read_length, codec, server>>

\* a call on the result set or on the LOB handle that writes a request
SendCursorRequest(t, request_type, pushed) ==
    /\ calls' = calls + 1
    /\ request' = [request EXCEPT ![t] = Request_new(request_type, pushed)]
    /\ pc' = [pc EXCEPT ![t] = "serialize"]
    /\ result' = [result EXCEPT ![t] = NoResult]

\* a call on the result set or on the LOB handle that returns at once
ReturnCursorCall(t, res) ==
    /\ calls' = calls
    /\ request' = [request EXCEPT ![t] = NoRequest]
    /\ pc' = [pc EXCEPT ![t] = "done"]
    /\ result' = [result EXCEPT ![t] = res]

\* ResultSet::next_row: a buffered row is handed out; an empty buffer of a
\* result set that is not closed is refilled with a Fetch
next_row(t) ==
    /\ rs.state # "none"
    /\ StartCursorCall(t, "next_row")
    /\ lob' = lob
    /\ IF rs.rows > 0
       THEN /\ rs' = [rs EXCEPT !.rows = @ - 1]
            /\ ReturnCursorCall(t, Ok("Row", <<>>))
       ELSE IF needs_fetch(rs)
       THEN /\ rs' = rs
            /\ calls < MaxCursorCalls
            /\ SendCursorRequest(t, "FetchNext",
                                 <<Part("ResultSetId", <<rs.id>>),
                                   Part("FetchSize", <<fetch_size>>)>>)
       ELSE /\ rs' = rs
            /\ ReturnCursorCall(t, Ok("NoRow", <<>>))

\* the reply to a Fetch is taken into the result set: its rows are buffered,
\* its attributes replace those of the result set, and a row is handed out
fetch_finish(t) ==
    /\ pc[t] = "fetch"
    /\ LET idx == {i \in 1..Len(reply[t].parts) : reply[t].parts[i].kind = "ResultSet"}
           part == reply[t].parts[CHOOSE i \in idx : TRUE]
           rows == rs.rows + part.arg[4]
       IN  IF idx = {}
           THEN /\ rs' = rs
                /\ result' = [result EXCEPT ![t] = Err("Impl", <<>>)]
           ELSE /\ rs' = [rs EXCEPT !.rows = IF rows > 0 THEN rows - 1 ELSE 0,
                                    !.attributes = part.arg[2]]
                /\ result' = [result EXCEPT ![t] =
                                 IF rows > 0 THEN Ok("Row", <<>>) ELSE Ok("NoRow", <<>>)]
    /\ digested' = [digested EXCEPT ![t] = reply[t].parts]
    /\ reply' = [reply EXCEPT ![t] = NoReply]
    /\ pc' = [pc EXCEPT ![t] = "done"]
    /\ UNCHANGED <<conn_vars, stream_vars, op, request, int_return_values, locals,
                   ps, calls, wire_seqs, parsed, echo, batch_log, wire_reqs, unread,
                   lob_read_length, codec, lob, server>>

\* ResultSet close: an open result set that is not at its last packet sends
\* CloseResultSet with its id; it is closed from then on
close(t) ==
    /\ rs.state = "open"
    /\ StartCursorCall(t, "close")
    /\ lob' = lob
    /\ rs' = [rs EXCEPT !.state = "closed", !.rows = 0]
    /\ IF is_closed(rs)
       THEN ReturnCursorCall(t, Ok("Unit", <<>>))
       ELSE /\ calls < MaxCursorCalls
            /\ SendCursorRequest(t, "CloseResultSet",
                                 <<Part("ResultSetId", <<rs.id>>)>>)

\* the reply to CloseResultSet is discarded
close_finish(t) ==
    /\ pc[t] = "close"
    /\ digested' = [digested EXCEPT ![t] = reply[t].parts]
    /\ reply' = [reply EXCEPT ![t] = NoReply]
    /\ result' = [result EXCEPT ![t] = Ok("Unit", <<>>)]
    /\ pc' = [pc EXCEPT ![t] = "done"]
    /\ UNCHANGED <<conn_vars, stream_vars, op, request, int_return_values, locals,
                   ps, calls, wire_seqs, parsed, echo, batch_log, wire_reqs, unread,
                   cursor_vars, codec>>

\* the server answers a Fetch with the next rows of the cursor, at most as many
\* as asked for, and sets last-packet when it has no more; or with an error
ServerFetch ==
    /\ ~broken
    /\ outbound # <<>>
    /\ Head(outbound).type = "FetchNext"
    /\ outbound' = Tail(outbound)
    /\ LET req == Head(outbound)
           id == req.parts[Len(req.parts) - 1].arg[1]
           size == Last(req.parts).arg[1]
           most == IF server.rows < size THEN server.rows ELSE size
       IN  \/ \E n \in (IF most = 0 THEN {0} ELSE 1..most) :
                /\ inbound' = inbound \o
                      Frame(req.seq,
                            [type |-> "Fetch",
                             parts |-> <<Part("ResultSet",
                                              <<id,
                                                IF n = server.rows
                                                THEN LastPacketAttributes ELSE 0,
                                                3, n>>)>>])
                /\ server' = [server EXCEPT !.rows = @ - n]
           \/ /\ inbound' = inbound \o
                     Frame(req.seq, [type |-> "Fetch", parts |-> <<ErrorPart>>])
              /\ server' = server
    /\ UNCHANGED <<conn_vars, broken, thread_vars, ps, calls, hist_vars,
                   lob_read_length, codec, rs, lob>>

\* the server answers CloseResultSet
ServerClose ==
    /\ ~broken
    /\ outbound # <<>>
    /\ Head(outbound).type = "CloseResultSet"
    /\ outbound' = Tail(outbound)
    /\ \E parts \in {<<>>, <<ErrorPart>>} :
          inbound' = inbound \o
              Frame(Head(outbound).seq, [type |-> "CloseCursor", parts |-> parts])
    /\ server' = [server EXCEPT !.rows = 0]
    /\ UNCHANGED <<conn_vars, broken, thread_vars, ps, calls, hist_vars,
                   lob_read_length, codec, rs, lob>>

\* the result sets a query hands to its caller, with the rows the server holds
\* back: built from a ResultSet part with the first rows, or by resultset_new
InitRS ==
    /\ InitConnection
    /\ lob_read_length = 0
    /\ lob = NoLob
    /\ codec = NoCodec
    /\ \E total \in 0..MaxRows :
          \/ \E n \in 0..total :
                /\ rs = [state |-> "open", id |-> 7, rows |-> n,
                         attributes |-> IF n = total THEN LastPacketAttributes ELSE 0]
                /\ server = [rows |-> total - n, lob |-> <<>>]
          \/ /\ rs = [state |-> "open", id |-> 7, rows |-> 0,
                       attributes |-> FirstPacketAttributes]
             /\ server = [rows |-> total, lob |-> <<>>]

\* ------------------------------------------------------------ LOB handle
\* CESU-8 units of an NCLOB: a one-byte character, and the two three-byte
\* halves of a character outside the basic plane
Ascii == 1
HighSurrogate == 4
LowSurrogate == 5

\* UTF-8 characters: Ascii, the four-byte character a surrogate pair stands
\* for, and what a lone surrogate decodes to
Supplementary == 9
Replacement == 0

cesu8_size(unit) == IF unit = Ascii THEN 1 ELSE 3
utf8_size(char) == IF char = Ascii THEN 1 ELSE IF char = Supplementary THEN 4 ELSE 3

\* size in bytes of a sequence of CESU-8 units
RECURSIVE cesu8_length(_)
cesu8_length(units) ==
    IF units = <<>> THEN 0 ELSE cesu8_size(Head(units)) + cesu8_length(Tail(units))

\* re-encoding of CESU-8 as UTF-8: a surrogate pair becomes one character
RECURSIVE cesu8_to_utf8(_)
cesu8_to_utf8(units) ==
    IF units = <<>> THEN <<>>
    ELSE IF Head(units) = Ascii THEN <<Ascii>> \o cesu8_to_utf8(Tail(units))
    ELSE IF Head(units) = HighSurrogate /\ Len(units) >= 2
            /\ units[2] = LowSurrogate
         THEN <<Supplementary>> \o cesu8_to_utf8(Tail(Tail(units)))
         ELSE <<Replacement>> \o cesu8_to_utf8(Tail(units))

\* the number of units that make up the first n characters
RECURSIVE units_of(_, _)
units_of(units, n) ==
    IF n = 0 \/ units = <<>> THEN 0
    ELSE IF Head(units) = HighSurrogate /\ Len(units) >= 2 /\ units[2] = LowSurrogate
         THEN 2 + units_of(Tail(Tail(units)), n - 1)
         ELSE 1 + units_of(Tail(units), n - 1)

\* a buffer that is handed out up to its last unit
complete_all(buffer) == buffer

\* the buffered units that can be handed out: a trailing first half of a
\* surrogate pair waits for the next chunk
complete(buffer) ==
    IF buffer # <<>> /\ Last(buffer) = HighSurrogate THEN Front(buffer) ELSE buffer

\* a read length that asks for all that is left of the value
length_to_read_uncapped(h, cap) == h.total - h.acc

\* length_to_read of a ReadLobRequest: capped by the LOB read length
length_to_read(h, cap) ==
    IF h.total - h.acc < cap THEN h.total - h.acc ELSE cap

\* a handle that never takes itself for finished
at_end_never(h) == FALSE

\* the server indicated that no more data follows
at_end(h) == h.is_last_data

\* ReadLobRequest::new(locator_id, offset, length_to_read) in its part
ReadLobRequest_new(locator_id, offset, length) ==
    Part("ReadLobRequest", <<locator_id, offset, length>>)

\* what the reader asks for in one read, in characters
Wants == {1, 2}

\* buffered data is handed out to the reader, at most `want` characters
hand_out(h) ==
    LET chars == cesu8_to_utf8(complete(h.buffer))
        n == IF Len(chars) < h.want THEN Len(chars) ELSE h.want
        used == units_of(h.buffer, n)
    IN  [h EXCEPT !.sink = @ \o SubSeq(chars, 1, n),
                  !.buffer = SubSeq(@, used + 1, Len(@))]

\* the request for the next chunk
fetch_next_chunk(t, h) ==
    SendCursorRequest(t, "ReadLob",
                      <<ReadLobRequest_new(h.locator_id, h.acc + 1,
                                           length_to_read(h, lob_read_length))>>)

\* Read::read on the handle: buffered data is handed out first; when there is
\* none and last-data is not set the next chunk is requested; at the end the
\* read returns end-of-stream
read(t, want) ==
    /\ lob.locator_id # 0
    /\ StartCursorCall(t, "read")
    /\ rs' = rs
    /\ LET h == [lob EXCEPT !.want = want]
       IN  IF cesu8_to_utf8(complete(h.buffer)) # <<>>
           THEN /\ lob' = hand_out(h)
                /\ ReturnCursorCall(t, Ok("Read", <<>>))
           ELSE IF at_end(h)
           THEN /\ lob' = h
                /\ ReturnCursorCall(t, Ok("Eof", <<>>))
           ELSE /\ lob' = h
                /\ fetch_next_chunk(t, h)

\* the reply to a ReadLobRequest is taken into the handle: its chunk is
\* appended to the buffer; the read hands out what it can, and asks for the
\* next chunk when the buffer holds nothing it can hand out
read_lob_finish(t) ==
    /\ pc[t] = "read_lob"
    /\ LET idx == {i \in 1..Len(reply[t].parts) :
                      reply[t].parts[i].kind = "ReadLobReply"}
           arg == reply[t].parts[CHOOSE i \in idx : TRUE].arg
           chunk == SubSeq(arg, 3, Len(arg))
           buffer == lob.buffer \o chunk
           size == cesu8_length(buffer)
           h == [lob EXCEPT !.buffer = buffer,
                            !.acc = @ + Len(chunk),
                            !.is_last_data = (arg[2] = 1),
                            !.max_size = IF size > @ THEN size ELSE @]
       IN  IF idx = {}
           THEN /\ lob' = lob
                /\ result' = [result EXCEPT ![t] = Err("Impl", <<>>)]
                /\ pc' = [pc EXCEPT ![t] = "done"]
                /\ UNCHANGED <<request, calls>>
           ELSE IF cesu8_to_utf8(complete(h.buffer)) = <<>> /\ ~at_end(h)
           THEN /\ lob' = h
                /\ fetch_next_chunk(t, h)
           ELSE /\ lob' = hand_out(h)
                /\ result' = [result EXCEPT ![t] =
                      IF cesu8_to_utf8(complete(h.buffer)) = <<>>
                      THEN Ok("Eof", <<>>) ELSE Ok("Read", <<>>)]
                /\ pc' = [pc EXCEPT ![t] = "done"]
                /\ UNCHANGED <<request, calls>>
    /\ digested' = [digested EXCEPT ![t] = reply[t].parts]
    /\ reply' = [reply EXCEPT ![t] = NoReply]
    /\ UNCHANGED <<conn_vars, stream_vars, op, int_return_values, locals, ps,
                   wire_seqs, parsed, echo, batch_log, wire_reqs, unread,
                   lob_read_length, codec, rs, server>>

\* the server answers a ReadLobRequest with the units of the stored value
\* from the offset on, at most as many as asked for, and sets last-data with
\* the last unit
ServerReadLob ==
    /\ ~broken
    /\ outbound # <<>>
    /\ Head(outbound).type = "ReadLob"
    /\ outbound' = Tail(outbound)
    /\ LET req == Head(outbound)
           arg == Last(req.parts).arg
           left == Len(server.lob) - arg[2] + 1
           most == IF left < arg[3] THEN left ELSE arg[3]
       IN  \E n \in (IF most <= 0 THEN {0} ELSE 1..most) :
              inbound' = inbound \o
                  Frame(req.seq,
                        [type |-> "ReadLob",
                         parts |-> <<Part("ReadLobReply",
                                          <<arg[1], IF n >= left THEN 1 ELSE 0>>
                                              \o SubSeq(server.lob, arg[2],
                                                        arg[2] + n - 1))>>])
    /\ UNCHANGED <<conn_vars, broken, thread_vars, ps, calls, hist_vars, cursor_vars, codec>>

\* stored values: every first half of a surrogate pair is followed by its
\* second half
WellFormedCesu8(units) ==
    \A i \in 1..Len(units) :
        /\ units[i] = HighSurrogate => i < Len(units) /\ units[i + 1] = LowSurrogate
        /\ units[i] = LowSurrogate => i > 1 /\ units[i - 1] = HighSurrogate

LobValues ==
    {v \in SeqsUpTo({Ascii, HighSurrogate, LowSurrogate}, MaxLobLength) :
        WellFormedCesu8(v)}

\* the handle as the parse of a row builds it: it holds the first chunk of the
\* stored value, which is no longer than the LOB read length
InitLob ==
    /\ InitConnection
    /\ rs = NoResultSet
    /\ codec = NoCodec
    /\ lob_read_length \in 1..MaxReadLength
    /\ \E v \in LobValues :
          /\ server = [rows |-> 0, lob |-> v]
          /\ \E n \in 0..Len(v) :
                /\ n <= lob_read_length
                /\ lob = [locator_id |-> 5, total |-> Len(v),
                          buffer |-> SubSeq(v, 1, n), acc |-> n,
                          is_last_data |-> (n = Len(v)), sink |-> <<>>, want |-> 0,
                          max_size |-> cesu8_length(SubSeq(v, 1, n))]


\* ------------------------------------------------------------ wire format
\* a call of a function of the wire format, before and after it has run
CodecCall(call, input) ==
    [call |-> call, input |-> input, origin |-> <<>>, done |-> FALSE,
     w |-> <<>>, out |-> <<>>, rest |-> <<>>]

CodecOk(val) == [ok |-> TRUE, val |-> val]
CodecErr(kind) == [ok |-> FALSE, err |-> kind]

\* the call has run and has written w and returned out
Returns(w, out) ==
    /\ codec' = [codec EXCEPT !.done = TRUE, !.w = w, !.out = out]
    /\ UNCHANGED <<conn_vars, stream_vars, thread_vars, ps, calls, hist_vars,
                   cursor_vars>>

\* the call named `call` is about to run
Pending(call) == codec.call = call /\ ~codec.done

\* the call named `call` has run
Done(call) == codec.call = call /\ codec.done

\* a padding that fills a whole block after a size that is a multiple of 8
padsize_full_block(size) == 8 - (size % 8)

\* padsize (argument.rs)
padsize(size) == IF size = 0 THEN 0 ELSE 7 - ((size - 1) % 8)

apply_padsize ==
    /\ Pending("padsize")
    /\ Returns(<<>>, padsize(codec.input))


\* what a parser hands back: its result and the bytes it left in the reader
Parsed(out, rest) == [out |-> out, rest |-> rest]

\* a parser has run on the reader of the call
ReturnsParsed(parsed_) ==
    /\ codec' = [codec EXCEPT !.done = TRUE, !.out = parsed_.out,
                              !.rest = parsed_.rest]
    /\ UNCHANGED <<conn_vars, stream_vars, thread_vars, ps, calls, hist_vars,
                   cursor_vars>>

\* a parser is applied to what the call before has written; the value that
\* was written is kept as the origin
ParseBack(call_before, call, input) ==
    /\ Done(call_before)
    /\ codec.out = CodecOk(<<>>)
    /\ codec' = [CodecCall(call, input) EXCEPT !.origin = <<codec.input>>]
    /\ UNCHANGED <<conn_vars, stream_vars, thread_vars, ps, calls, hist_vars,
                   cursor_vars>>

\* WriteBytesExt::write_iN / write_uN::<LittleEndian>: the low `width` bytes
\* of n in two's complement
RECURSIVE write_le(_, _)
write_le(n, width) ==
    IF width = 0 THEN <<>> ELSE <<n % 256>> \o write_le(n \div 256, width - 1)

\* ReadBytesExt::read_iN::<LittleEndian> of all the bytes given
RECURSIVE read_le(_)
read_le(bytes) ==
    IF Len(bytes) = 1
    THEN (IF bytes[1] >= 128 THEN bytes[1] - 256 ELSE bytes[1])
    ELSE bytes[1] + 256 * read_le(Tail(bytes))

\* the bytes of the reader after the first n
skip(rdr, n) == SubSeq(rdr, n + 1, Len(rdr))

MAX_1_BYTE_LENGTH == 245
MAX_2_BYTE_LENGTH == 32767
LENGTH_INDICATOR_2BYTE == 246
LENGTH_INDICATOR_4BYTE == 247
LENGTH_INDICATOR_NULL == 255

\* the CESU-8 bytes of one character, given as its code point: characters
\* outside the basic plane are written as a surrogate pair of 3 bytes each
utf8_3(cp) == <<224 + (cp \div 4096), 128 + ((cp \div 64) % 64), 128 + (cp % 64)>>
char_to_cesu8(cp) ==
    IF cp < 128 THEN <<cp>>
    ELSE IF cp < 2048 THEN <<192 + (cp \div 64), 128 + (cp % 64)>>
    ELSE IF cp < 65536 THEN utf8_3(cp)
    ELSE utf8_3(55296 + ((cp - 65536) \div 1024)) \o utf8_3(56320 + ((cp - 65536) % 1024))

\* cesu8::string_to_cesu8: the encodings of the characters, one after the other
RECURSIVE string_to_cesu8(_)
string_to_cesu8(s) ==
    IF s = <<>> THEN <<>>
    ELSE IF Len(s) = 1 THEN char_to_cesu8(s[1])
    ELSE LET half == Len(s) \div 2
         IN  string_to_cesu8(SubSeq(s, 1, half))
                 \o string_to_cesu8(SubSeq(s, half + 1, Len(s)))

\* cesu8::cesu8_length of a string
string_cesu8_length(s) == Len(string_to_cesu8(s))

\* cesu8::cesu8_to_string: the characters of well-formed CESU-8, None otherwise
IsCont(byte) == byte >= 128 /\ byte < 192
cesu8_to_string(b) ==
    LET n == Len(b)
        \* the number of bytes the lead byte at i announces, 0 for no lead byte
        size(i) == IF b[i] < 128 THEN 1
                   ELSE IF b[i] >= 192 /\ b[i] < 224 THEN 2
                   ELSE IF b[i] >= 224 /\ b[i] < 240 THEN 3
                   ELSE 0
        whole(i) == /\ size(i) > 0
                    /\ i + size(i) - 1 <= n
                    /\ \A j \in (i + 1)..(i + size(i) - 1) : IsCont(b[j])
                    /\ (i + size(i) <= n => ~IsCont(b[i + size(i)]))
        unit(i) == IF size(i) = 1 THEN b[i]
                   ELSE IF size(i) = 2 THEN (b[i] - 192) * 64 + (b[i + 1] - 128)
                   ELSE (b[i] - 224) * 4096 + (b[i + 1] - 128) * 64 + (b[i + 2] - 128)
        is_high(i) == size(i) = 3 /\ unit(i) >= 55296 /\ unit(i) < 56320
        is_low(i) == size(i) = 3 /\ unit(i) >= 56320 /\ unit(i) < 57344
        well_formed ==
            /\ n > 0 => ~IsCont(b[1])
            /\ \A i \in 1..n :
                  ~IsCont(b[i]) =>
                      /\ whole(i)
                      /\ is_high(i) => i + 5 <= n /\ is_low(i + 3)
                      /\ is_low(i) => i > 3 /\ size(i - 3) = 3 /\ is_high(i - 3)
        char(i) == IF IsCont(b[i]) \/ is_low(i) THEN -1
                   ELSE IF is_high(i)
                        THEN 65536 + (unit(i) - 55296) * 1024 + (unit(i + 3) - 56320)
                        ELSE unit(i)
    IN  IF well_formed
        THEN Some(SelectSeq([i \in 1..n |-> char(i)], LAMBDA cp : cp >= 0))
        ELSE None

\* string_length (hdb_value.rs)
string_length(s) ==
    LET clen == string_cesu8_length(s)
    IN  IF clen <= MAX_1_BYTE_LENGTH THEN 1 + clen
        ELSE IF clen <= MAX_2_BYTE_LENGTH THEN 3 + clen
        ELSE 5 + clen

\* a length indicator that takes the one-byte form up to 246
length_indicator_late(l) ==
    IF l <= MAX_1_BYTE_LENGTH + 1 THEN <<l>>
    ELSE IF l <= MAX_2_BYTE_LENGTH THEN <<LENGTH_INDICATOR_2BYTE>> \o write_le(l, 2)
    ELSE <<LENGTH_INDICATOR_4BYTE>> \o write_le(l, 4)

\* the length indicator that serialize_length_and_bytes writes
length_indicator(l) ==
    IF l <= MAX_1_BYTE_LENGTH THEN <<l>>
    ELSE IF l <= MAX_2_BYTE_LENGTH THEN <<LENGTH_INDICATOR_2BYTE>> \o write_le(l, 2)
    ELSE <<LENGTH_INDICATOR_4BYTE>> \o write_le(l, 4)

\* serialize_length_and_bytes (hdb_value.rs)
serialize_length_and_bytes(v) == length_indicator(Len(v)) \o v

\* serialize_length_and_string (hdb_value.rs)
serialize_length_and_string(s) == serialize_length_and_bytes(string_to_cesu8(s))

\* util::parse_bytes(len, rdr)
parse_bytes(len, rdr) ==
    IF len > Len(rdr) THEN Parsed(CodecErr("Io"), <<>>)
    ELSE Parsed(CodecOk(SubSeq(rdr, 1, len)), skip(rdr, len))

\* the length that follows the indicator l8, and the reader behind it;
\* -1 when the reader ends before
framed_length(l8, rdr) ==
    LET n == IF l8 = LENGTH_INDICATOR_2BYTE THEN 2 ELSE 4
    IN  IF l8 <= MAX_1_BYTE_LENGTH THEN Parsed(l8, rdr)
        ELSE IF Len(rdr) < n THEN Parsed(-1, <<>>)
        ELSE Parsed(read_le(SubSeq(rdr, 1, n)), skip(rdr, n))

\* the value behind a length indicator that stands for a length
parse_framed(l8, rdr) ==
    LET len == framed_length(l8, rdr)
    IN  IF len.out < 0 THEN Parsed(CodecErr("Io"), <<>>)
        ELSE parse_bytes(len.out, len.rest)

\* factory::parse_binary (hdb_value.rs)
parse_binary(rdr) ==
    IF rdr = <<>> THEN Parsed(CodecErr("Io"), <<>>)
    ELSE IF rdr[1] <= MAX_1_BYTE_LENGTH
            \/ rdr[1] \in {LENGTH_INDICATOR_2BYTE, LENGTH_INDICATOR_4BYTE}
         THEN parse_framed(rdr[1], Tail(rdr))
         ELSE Parsed(CodecErr("Impl"), Tail(rdr))

\* a parser that takes every indicator above 247 for NULL
parse_nullable_binary_lenient(rdr) ==
    IF rdr = <<>> THEN Parsed(CodecErr("Io"), <<>>)
    ELSE IF rdr[1] <= MAX_1_BYTE_LENGTH
            \/ rdr[1] \in {LENGTH_INDICATOR_2BYTE, LENGTH_INDICATOR_4BYTE}
         THEN LET p == parse_framed(rdr[1], Tail(rdr))
              IN  IF p.out.ok THEN Parsed(CodecOk(Some(p.out.val)), p.rest) ELSE p
         ELSE Parsed(CodecOk(None), Tail(rdr))

\* factory::parse_nullable_binary (hdb_value.rs)
parse_nullable_binary(rdr) ==
    IF rdr = <<>> THEN Parsed(CodecErr("Io"), <<>>)
    ELSE IF rdr[1] <= MAX_1_BYTE_LENGTH
            \/ rdr[1] \in {LENGTH_INDICATOR_2BYTE, LENGTH_INDICATOR_4BYTE}
         THEN LET p == parse_framed(rdr[1], Tail(rdr))
              IN  IF p.out.ok THEN Parsed(CodecOk(Some(p.out.val)), p.rest) ELSE p
         ELSE IF rdr[1] = LENGTH_INDICATOR_NULL THEN Parsed(CodecOk(None), Tail(rdr))
         ELSE Parsed(CodecErr("Impl"), Tail(rdr))

\* factory::parse_string (hdb_value.rs)
parse_string(rdr) ==
    LET p == parse_binary(rdr)
    IN  IF ~p.out.ok THEN p
        ELSE IF cesu8_to_string(p.out.val) = None THEN Parsed(CodecErr("Cesu8"), p.rest)
        ELSE Parsed(CodecOk(cesu8_to_string(p.out.val)[1]), p.rest)

\* factory::parse_nullable_string (hdb_value.rs)
parse_nullable_string(rdr) ==
    LET p == parse_nullable_binary(rdr)
    IN  IF ~p.out.ok \/ p.out.val = None THEN p
        ELSE IF cesu8_to_string(p.out.val[1]) = None THEN Parsed(CodecErr("Impl"), p.rest)
        ELSE Parsed(CodecOk(cesu8_to_string(p.out.val[1])), p.rest)

apply_serialize_length_and_bytes ==
    /\ Pending("serialize_length_and_bytes")
    /\ Returns(serialize_length_and_bytes(codec.input), CodecOk(<<>>))

apply_serialize_length_and_string ==
    /\ Pending("serialize_length_and_string")
    /\ Returns(serialize_length_and_string(codec.input), CodecOk(<<>>))

\* the framed bytes are read back
read_back_binary ==
    /\ codec.call = "serialize_length_and_bytes"
    /\ ParseBack("serialize_length_and_bytes", "parse_binary", codec.w)

read_back_string ==
    /\ codec.call = "serialize_length_and_string"
    /\ ParseBack("serialize_length_and_string", "parse_string", codec.w)

apply_parse_binary ==
    /\ Pending("parse_binary")
    /\ ReturnsParsed(parse_binary(codec.input))

apply_parse_nullable_binary ==
    /\ Pending("parse_nullable_binary")
    /\ ReturnsParsed(parse_nullable_binary(codec.input))

apply_parse_string ==
    /\ Pending("parse_string")
    /\ ReturnsParsed(parse_string(codec.input))

apply_parse_nullable_string ==
    /\ Pending("parse_nullable_string")
    /\ ReturnsParsed(parse_nullable_string(codec.input))


\* ------------------------------------------------------------ typed values
\* type_id of the variants that are not nullable; the nullable variant of a
\* type has the id of the type plus 128
TypeId ==
    [NOTHING |-> 0, TINYINT |-> 1, SMALLINT |-> 2, INT |-> 3, BIGINT |-> 4,
     DECIMAL |-> 5, REAL |-> 6, DOUBLE |-> 7, CHAR |-> 8, VARCHAR |-> 9,
     NCHAR |-> 10, NVARCHAR |-> 11, BINARY |-> 12, VARBINARY |-> 13,
     BOOLEAN |-> 28, STRING |-> 29, NSTRING |-> 30, BSTRING |-> 33,
     SMALLDECIMAL |-> 47, TEXT |-> 51, SHORTTEXT |-> 52, LONGDATE |-> 61,
     SECONDDATE |-> 62, DAYDATE |-> 63, SECONDTIME |-> 64]

IntTypes == {"TINYINT", "SMALLINT", "INT", "BIGINT"}
DecimalTypes == {"DECIMAL", "SMALLDECIMAL"}
CharTypes == {"CHAR", "VARCHAR", "NCHAR", "NVARCHAR"}
StringTypes == {"STRING", "NSTRING", "TEXT", "SHORTTEXT"}
BinaryTypes == {"BINARY", "VARBINARY", "BSTRING"}

\* HdbValue::T(val) and HdbValue::N_T(o_val); what a variant holds is kept as
\* a sequence of numbers: <<n>> for a number, <<1>> and <<0>> for true and
\* false, the bits of a float as its bytes, the characters of a string
Plain(type, val) == [type |-> type, nullable |-> FALSE, null |-> FALSE, val |-> val]
Nullable(type, o_val) ==
    [type |-> type, nullable |-> TRUE, null |-> (o_val = None),
     val |-> IF o_val = None THEN None ELSE o_val[1]]
NOTHING == Plain("NOTHING", <<>>)

is_none(tv) == tv.null

\* the value a variant holds, if it holds one
held(tv) == tv.val

\* HdbValue::type_id
type_id(tv) == TypeId[tv.type] + (IF tv.nullable THEN 128 ELSE 0)

\* the None variants that HdbValue::serialize_type_id takes for null
NullTypeIdTypes ==
    {"TINYINT", "SMALLINT", "INT", "BIGINT", "REAL", "BOOLEAN", "LONGDATE",
     "CHAR", "VARCHAR", "NCHAR", "NVARCHAR", "STRING", "NSTRING", "TEXT",
     "SHORTTEXT", "BINARY", "VARBINARY", "BSTRING"}

\* HdbValue::serialize_type_id: the value it returns
is_null(tv) == is_none(tv) /\ tv.type \in NullTypeIdTypes

\* HdbValue::serialize_type_id: the byte it writes
serialize_type_id(tv) == IF is_null(tv) THEN type_id(tv) ELSE type_id(tv) % 128

\* width in bytes of the integer types
int_width(type) ==
    CASE type = "TINYINT" -> 1 [] type = "SMALLINT" -> 2
      [] type = "INT" -> 4 [] type = "BIGINT" -> 8

\* serialize (hdb_value.rs): what follows the type id
payload(tv) ==
    IF is_none(tv) THEN <<>>
    ELSE CASE tv.type \in IntTypes -> write_le(held(tv)[1], int_width(tv.type))
           [] tv.type \in DecimalTypes -> held(tv)
           [] tv.type \in {"REAL", "DOUBLE"} -> held(tv)
           [] tv.type = "BOOLEAN" -> (IF held(tv) = <<1>> THEN <<1>> ELSE <<0>>)
           [] tv.type \in {"LONGDATE", "SECONDDATE"} -> write_le(held(tv)[1], 8)
           [] tv.type \in {"DAYDATE", "SECONDTIME"} -> write_le(held(tv)[1], 4)
           [] tv.type \in StringTypes -> serialize_length_and_string(held(tv))
           [] tv.type \in BinaryTypes -> serialize_length_and_bytes(held(tv))
           [] OTHER -> <<>>

\* serialize (hdb_value.rs): the bytes written and the result
serialize_value(tv) ==
    IF is_null(tv) THEN [w |-> <<serialize_type_id(tv)>>, out |-> CodecOk(<<>>)]
    ELSE IF tv.type = "NOTHING" \/ tv.type \in CharTypes
    THEN [w |-> <<serialize_type_id(tv)>>, out |-> CodecErr("Impl")]
    ELSE [w |-> <<serialize_type_id(tv)>> \o payload(tv), out |-> CodecOk(<<>>)]

\* size (hdb_value.rs): -1 stands for the Impl error
value_size(tv) ==
    IF tv.type = "NOTHING" \/ tv.type \in CharTypes THEN -1
    ELSE 1 + (IF is_none(tv) THEN 0
              ELSE CASE tv.type \in {"BOOLEAN", "TINYINT"} -> 1
                     [] tv.type = "SMALLINT" -> 2
                     [] tv.type \in DecimalTypes -> 16
                     [] tv.type \in {"INT", "REAL", "DAYDATE", "SECONDTIME"} -> 4
                     [] tv.type \in {"BIGINT", "DOUBLE", "LONGDATE", "SECONDDATE"} -> 8
                     [] tv.type \in StringTypes -> string_length(held(tv))
                     [] tv.type \in BinaryTypes -> Len(held(tv)) + 2)

Io == Parsed(CodecErr("Io"), <<>>)

\* a value of `type` parsed from a reply, nullable or not
Present(type, nullable, val) ==
    IF nullable THEN Nullable(type, Some(val)) ELSE Plain(type, val)

\* a column value that is NULL: None in a nullable column, an error otherwise
Null(type, nullable, rest) ==
    IF nullable THEN Parsed(CodecOk(Nullable(type, None)), rest)
    ELSE Parsed(CodecErr("Impl"), rest)

\* factory::ind_null, ind_not_null and the integer that follows
parse_int(type, nullable, rdr) ==
    LET width == int_width(type)
        bytes == SubSeq(rdr, 2, 1 + width)
    IN  IF rdr = <<>> THEN Io
        ELSE IF rdr[1] = 0 THEN Null(type, nullable, Tail(rdr))
        ELSE IF Len(rdr) < 1 + width THEN Io
        ELSE Parsed(CodecOk(Present(type, nullable,
                                    IF type = "TINYINT" THEN <<bytes[1]>>
                                    ELSE <<read_le(bytes)>>)),
                    skip(rdr, 1 + width))

\* typecodes 28 and 156 of factory::parse_from_reply
parse_boolean(nullable, rdr) ==
    IF rdr = <<>> THEN Io
    ELSE IF ~nullable
    THEN Parsed(CodecOk(Plain("BOOLEAN", IF rdr[1] > 0 THEN <<1>> ELSE <<0>>)), Tail(rdr))
    ELSE IF rdr[1] = 0 THEN Parsed(CodecOk(Nullable("BOOLEAN", None)), Tail(rdr))
    ELSE IF Len(rdr) < 2 THEN Io
    ELSE Parsed(CodecOk(Nullable("BOOLEAN", Some(IF rdr[2] > 0 THEN <<1>> ELSE <<0>>))),
                skip(rdr, 2))

\* a NULL sentinel of REAL and DOUBLE that is any pattern with the sign and
\* all exponent bits set
float_is_null_exponent(bits) ==
    /\ bits[Len(bits)] = 255
    /\ bits[Len(bits) - 1] >= (IF Len(bits) = 4 THEN 128 ELSE 240)

\* u32::MAX and u64::MAX: all bits set
float_is_null(bits) == \A i \in 1..Len(bits) : bits[i] = 255

\* factory::parse_real / parse_nullable_real / parse_double /
\* parse_nullable_double: a float is kept as its bits
parse_float(type, nullable, rdr) ==
    LET width == IF type = "REAL" THEN 4 ELSE 8
        bits == SubSeq(rdr, 1, width)
    IN  IF Len(rdr) < width THEN Io
        ELSE IF float_is_null(bits) THEN Null(type, nullable, skip(rdr, width))
        ELSE Parsed(CodecOk(Present(type, nullable, bits)), skip(rdr, width))

NULL_REPRESENTATION == 86402
MINUTE_FACTOR == 60
HOUR_FACTOR == 3600

\* SecondTime::new: the assertion on the raw value
secondtime_is_valid(raw) == raw < NULL_REPRESENTATION /\ raw >= 0

\* SecondTime::as_hms
as_hms(raw) ==
    LET second0 == IF raw = 0 THEN 0 ELSE raw - 1
        hour == second0 \div HOUR_FACTOR
        second1 == second0 - HOUR_FACTOR * hour
        minute == second1 \div MINUTE_FACTOR
    IN  <<hour, minute, second1 - MINUTE_FACTOR * minute>>

\* parse_secondtime / parse_nullable_secondtime (secondtime.rs); a raw value
\* that fails the assertion of SecondTime::new ends the thread
parse_secondtime(nullable, rdr) ==
    LET st == read_le(SubSeq(rdr, 1, 4))
    IN  IF Len(rdr) < 4 THEN Io
        ELSE IF st = NULL_REPRESENTATION THEN Null("SECONDTIME", nullable, skip(rdr, 4))
        ELSE IF ~secondtime_is_valid(st) THEN Parsed(CodecErr("panic"), skip(rdr, 4))
        ELSE Parsed(CodecOk(Present("SECONDTIME", nullable, <<st>>)), skip(rdr, 4))

\* the NULL sentinels of the types whose parsers are in types_impl
DateNull ==
    [DAYDATE |-> <<0, 0, 0, 0>>,
     SECONDDATE |-> <<129, 219, 136, 119, 73, 0, 0, 0>>,
     LONGDATE |-> <<1, 192, 10, 73, 8, 42, 202, 43>>]

\* parse_daydate, parse_seconddate, parse_longdate and their nullable forms
parse_date(type, nullable, rdr) ==
    LET width == Len(DateNull[type])
        bytes == SubSeq(rdr, 1, width)
    IN  IF Len(rdr) < width THEN Io
        ELSE IF bytes = DateNull[type] THEN Null(type, nullable, skip(rdr, width))
        ELSE Parsed(CodecOk(Present(type, nullable, <<read_le(bytes)>>)), skip(rdr, width))

\* parse_decimal / parse_nullable_decimal: the 16 bytes are kept as they are
parse_decimal(nullable, rdr) ==
    LET bytes == SubSeq(rdr, 1, 16)
    IN  IF Len(rdr) < 16 THEN Io
        ELSE IF \A i \in 1..16 : bytes[i] = 255 THEN Null("DECIMAL", nullable, skip(rdr, 16))
        ELSE Parsed(CodecOk(Present("DECIMAL", nullable, bytes)), skip(rdr, 16))

\* the strings and binaries of factory::parse_from_reply
parse_framed_value(type, nullable, rdr) ==
    LET p == IF type \in BinaryTypes
             THEN (IF nullable THEN parse_nullable_binary(rdr) ELSE parse_binary(rdr))
             ELSE (IF nullable THEN parse_nullable_string(rdr) ELSE parse_string(rdr))
    IN  IF ~p.out.ok THEN p
        ELSE Parsed(CodecOk(IF nullable THEN Nullable(type, p.out.val)
                            ELSE Plain(type, p.out.val)), p.rest)

\* the name of the type with the given id
TypeOf(id) == CHOOSE type \in DOMAIN TypeId : TypeId[type] = id

\* the typecodes of CLOB, NCLOB and BLOB, whose parsers build LOB handles
LobTypeIds == {25, 26, 27}

\* factory::parse_from_reply (hdb_value.rs), for all typecodes but those of LOBs
parse_from_reply(p_typecode, nullable, rdr) ==
    IF p_typecode \notin ({TypeId[type] : type \in DOMAIN TypeId} \ {0, 47})
    THEN Parsed(CodecErr("Impl"), rdr)
    ELSE LET type == TypeOf(p_typecode)
         IN  CASE type \in IntTypes -> parse_int(type, nullable, rdr)
               [] type = "DECIMAL" -> parse_decimal(nullable, rdr)
               [] type \in {"REAL", "DOUBLE"} -> parse_float(type, nullable, rdr)
               [] type = "BOOLEAN" -> parse_boolean(nullable, rdr)
               [] type = "SECONDTIME" -> parse_secondtime(nullable, rdr)
               [] type \in {"DAYDATE", "SECONDDATE", "LONGDATE"} ->
                      parse_date(type, nullable, rdr)
               [] OTHER -> parse_framed_value(type, nullable, rdr)

apply_serialize ==
    /\ Pending("serialize")
    /\ Returns(serialize_value(codec.input).w, serialize_value(codec.input).out)

\* the bytes written for a value are parsed with the type id that was written
\* and the nullability of the value
read_back_value ==
    /\ codec.call = "serialize"
    /\ ParseBack("serialize", "parse_from_reply",
                 [p_typecode |-> codec.w[1] % 128,
                  nullable |-> codec.input.nullable,
                  rdr |-> Tail(codec.w)])

apply_parse_from_reply ==
    /\ Pending("parse_from_reply")
    /\ codec.input.p_typecode \notin LobTypeIds
    /\ ReturnsParsed(parse_from_reply(codec.input.p_typecode, codec.input.nullable,
                                      codec.input.rdr))

apply_as_hms ==
    /\ Pending("as_hms")
    /\ Returns(<<>>, as_hms(codec.input))

\* a raw value without the offset of 1
from_hms_no_offset(hour, minute, second) ==
    IF hour > 23 \/ minute > 59 \/ second > 59 THEN -1
    ELSE hour * HOUR_FACTOR + minute * MINUTE_FACTOR + second

\* SecondTime::from_hms: the raw value; -1 stands for the Err
from_hms(hour, minute, second) ==
    IF hour > 23 \/ minute > 59 \/ second > 59 THEN -1
    ELSE hour * HOUR_FACTOR + minute * MINUTE_FACTOR + second + 1

\* from_hms, and as_hms of the SecondTime that it has made
hms_of_raw(raw) ==
    IF raw = -1 THEN CodecErr("illegal value of hour, minute or second")
    ELSE CodecOk(<<raw>> \o as_hms(raw))

apply_from_hms ==
    /\ Pending("from_hms")
    /\ Returns(<<>>, hms_of_raw(from_hms(codec.input[1], codec.input[2], codec.input[3])))

\* ------------------------------------------------------------ Argument
Zeros(n) == [i \in 1..n |-> 0]

MESSAGE_HEADER_SIZE == 32
SEGMENT_HEADER_SIZE == 24
PART_HEADER_SIZE == 16

\* Argument::K(val)
Argument(kind, val) == [kind |-> kind, val |-> val]

RECURSIVE sum(_)
sum(sizes) == IF Len(sizes) = 0 THEN 0 ELSE Head(sizes) + sum(Tail(sizes))

RECURSIVE concat(_)
concat(writes) == IF Len(writes) = 0 THEN <<>> ELSE Head(writes) \o concat(Tail(writes))

\* the sum of sizes on top of `base`; -1 stands for the error of one of them
add_sizes(base, sizes) ==
    IF \E i \in 1..Len(sizes) : sizes[i] = -1 THEN -1 ELSE base + sum(sizes)

\* Parameters::size: the sizes of the fields of the row
parameters_size(row) == add_sizes(0, [i \in 1..Len(row) |-> value_size(row[i])])

\* what is written up to the first field that fails
written_fields(written) ==
    LET failed == {i \in 1..Len(written) : ~written[i].out.ok}
        last == IF failed = {} THEN Len(written)
                ELSE CHOOSE i \in failed : \A j \in failed : i <= j
    IN  [w |-> concat([i \in 1..last |-> written[i].w]),
         out |-> IF failed = {} THEN CodecOk(<<>>) ELSE written[last].out]

\* Parameters::emit: the fields of the row are serialized one after the other
parameters_emit(row) == written_fields([i \in 1..Len(row) |-> serialize_value(row[i])])

\* ClientInfo::size
client_info_size(info) ==
    sum([i \in 1..Len(info) |-> string_length(info[i][1]) + string_length(info[i][2])])

\* ClientInfo::emit
client_info_emit(info) ==
    concat([i \in 1..Len(info) |-> serialize_length_and_string(info[i][1])
                                       \o serialize_length_and_string(info[i][2])])

\* ReadLobRequest::emit: locator_id and offset are kept as their eight bytes
read_lob_request_emit(r) == r[1] \o r[2] \o write_le(r[3][1], 4) \o write_le(0, 4)

\* the variants with an arm in Argument::size and Argument::emit
EmittedKinds ==
    {"ClientInfo", "Command", "FetchSize", "Parameters", "ReadLobRequest",
     "ResultSetId", "StatementId"}

\* Argument::size before the padding is added; -1 stands for the Impl error
argument_payload_size(arg, o_par_md) ==
    CASE arg.kind = "ClientInfo" -> client_info_size(arg.val)
      [] arg.kind = "Command" -> string_cesu8_length(arg.val)
      [] arg.kind = "FetchSize" -> 4
      [] arg.kind = "Parameters" -> (IF o_par_md THEN parameters_size(arg.val) ELSE -1)
      [] arg.kind = "ReadLobRequest" -> 24
      [] arg.kind \in {"ResultSetId", "StatementId"} -> 8
      [] OTHER -> -1

\* Argument::size: the padding is added on request
with_padsize(size, with_padding) ==
    IF size = -1 THEN -1
    ELSE IF with_padding THEN size + padsize(size)
    ELSE size

\* Argument::size
argument_size(arg, with_padding, o_par_md) ==
    with_padsize(argument_payload_size(arg, o_par_md), with_padding)

\* Argument::emit: what the match on the variant writes
argument_payload(arg, o_par_md) ==
    CASE arg.kind = "ClientInfo" ->
             [w |-> client_info_emit(arg.val), out |-> CodecOk(<<>>)]
      [] arg.kind = "Command" ->
             [w |-> string_to_cesu8(arg.val), out |-> CodecOk(<<>>)]
      [] arg.kind = "FetchSize" ->
             [w |-> write_le(arg.val[1], 4), out |-> CodecOk(<<>>)]
      [] arg.kind = "Parameters" ->
             (IF o_par_md THEN parameters_emit(arg.val)
              ELSE [w |-> <<>>, out |-> CodecErr("Impl")])
      [] arg.kind = "ReadLobRequest" ->
             [w |-> read_lob_request_emit(arg.val), out |-> CodecOk(<<>>)]
      [] arg.kind \in {"ResultSetId", "StatementId"} ->
             [w |-> arg.val, out |-> CodecOk(<<>>)]
      [] OTHER -> [w |-> <<>>, out |-> CodecErr("Impl")]

\* Argument::emit: the padding behind what was written, and the remaining
\* buffer size as the number that `remaining_bufsize - size - padsize` is
\* without a limit
emit_padding(written, size, remaining_bufsize) ==
    IF ~written.out.ok THEN written
    ELSE IF size = -1 THEN [w |-> written.w, out |-> CodecErr("Impl")]
    ELSE [w |-> written.w \o Zeros(padsize(size)),
          out |-> CodecOk(remaining_bufsize - size - padsize(size))]

\* Argument::emit
argument_emit(arg, remaining_bufsize, o_par_md) ==
    emit_padding(argument_payload(arg, o_par_md), argument_size(arg, FALSE, o_par_md),
                 remaining_bufsize)

\* Argument::emit returns a u32: a subtraction below 0 ends the thread where
\* overflow is checked and wraps where it is not
ReturnsU32(emitted) ==
    \/ Returns(emitted.w, IF emitted.out.ok
                          THEN CodecOk(write_le(emitted.out.val, 4))
                          ELSE emitted.out)
    \/ /\ emitted.out.ok
       /\ emitted.out.val < 0
       /\ Returns(emitted.w, CodecErr("panic"))

apply_emit ==
    /\ Pending("emit")
    /\ ReturnsU32(argument_emit(codec.input.arg, codec.input.remaining_bufsize,
                                codec.input.o_par_md))

\* PartKind of the variants that are emitted
PartKindId ==
    [Command |-> 3, StatementId |-> 10, ResultSetId |-> 13, ReadLobRequest |-> 17,
     Parameters |-> 32, FetchSize |-> 45, ClientInfo |-> 57]

\* count of an option bag: the number of its options
option_count(opts) == Len(opts)

\* Argument::count; a row of parameters is one item; -1 stands for the Impl
\* error of the variants that are never emitted
argument_count(arg) ==
    CASE arg.kind \in {"Auth", "ClientContext", "Command", "FetchSize", "ResultSetId",
                       "StatementId", "ReadLobRequest", "Parameters"} -> 1
      [] arg.kind = "ClientInfo" -> Len(arg.val) * 2
      [] arg.kind \in {"CommandInfo", "CommitOptions", "ConnectOptions", "FetchOptions",
                       "LobFlags", "SessionContext", "StatementContext",
                       "TransactionFlags", "XatOptions"} -> option_count(arg.val)
      [] OTHER -> -1

apply_count ==
    /\ Pending("count")
    /\ Returns(<<>>, IF argument_count(codec.input) = -1 THEN CodecErr("Impl")
                     ELSE CodecOk(<<argument_count(codec.input)>>))

\* Part::size
part_size(part, with_padding, o_par_md) ==
    add_sizes(PART_HEADER_SIZE, <<argument_size(part.arg, with_padding, o_par_md)>>)

\* Part::serialize: the part header and what the argument has emitted
part_written(kind, count, size, remaining_bufsize, emitted) ==
    IF size = -1 THEN [w |-> <<>>, out |-> CodecErr("Impl")]
    ELSE [w |-> <<kind, 0>> \o write_le(count, 2) \o write_le(0, 4) \o write_le(size, 4)
                    \o write_le(remaining_bufsize, 4) \o emitted.w,
          out |-> emitted.out]

\* Part::serialize
part_serialize(part, remaining_bufsize, o_par_md) ==
    part_written(PartKindId[part.kind], argument_count(part.arg),
                 argument_size(part.arg, FALSE, o_par_md), remaining_bufsize,
                 argument_emit(part.arg, remaining_bufsize - PART_HEADER_SIZE, o_par_md))

\* Request::seg_size; -1 stands for the error of a part
seg_size(req) ==
    add_sizes(SEGMENT_HEADER_SIZE,
              [i \in 1..Len(req.parts) |-> part_size(req.parts[i], TRUE, req.o_par_md)])

\* Request::varpart_size
varpart_size(req) == seg_size(req)

\* the message type of a request
RequestTypeId ==
    [ExecuteDirect |-> 2, Prepare |-> 3, Execute |-> 13, ReadLob |-> 16,
     CloseResultSet |-> 69, DropStatementId |-> 70, FetchNext |-> 71]

\* what was written before, then what is written now
then_written(before, now) == [w |-> before.w \o now.w, out |-> now.out]

\* Request::serialize_impl: the loop over the parts
RECURSIVE serialize_parts(_, _, _)
RECURSIVE next_parts(_, _, _)
serialize_parts(parts, remaining_bufsize, o_par_md) ==
    IF parts = <<>> THEN [w |-> <<>>, out |-> CodecOk(<<>>)]
    ELSE next_parts(part_serialize(Head(parts), remaining_bufsize, o_par_md),
                    Tail(parts), o_par_md)

\* Request::serialize_impl: the loop goes on behind a part that was written
next_parts(first, parts, o_par_md) ==
    IF ~first.out.ok THEN first
    ELSE then_written(first, serialize_parts(parts, first.out.val, o_par_md))

\* Request::serialize_impl: the message header
message_header(session_id, seq_no, varpart, remaining_bufsize) ==
    session_id \o write_le(seq_no, 4) \o write_le(varpart, 4)
        \o write_le(remaining_bufsize, 4) \o write_le(1, 2) \o Zeros(10)

\* Request::serialize_impl: the segment header
segment_header(req, size) ==
    write_le(size, 4) \o write_le(0, 4) \o write_le(Len(req.parts), 2) \o write_le(1, 2)
        \o <<1, RequestTypeId[req.request_type], IF req.auto_commit THEN 1 ELSE 0,
             req.command_options>>
        \o Zeros(8)

\* Request::serialize_impl: the headers and the parts
message_written(req, session_id, seq_no, varpart, size) ==
    IF varpart = -1 THEN [w |-> <<>>, out |-> CodecErr("Impl")]
    ELSE then_written(
             [w |-> message_header(session_id, seq_no, varpart,
                                   (MESSAGE_HEADER_SIZE + varpart) - MESSAGE_HEADER_SIZE)
                        \o segment_header(req, size)],
             serialize_parts(req.parts,
                             (MESSAGE_HEADER_SIZE + varpart) - MESSAGE_HEADER_SIZE
                                 - SEGMENT_HEADER_SIZE,
                             req.o_par_md))

\* Request::serialize_impl
serialize_impl(req, session_id, seq_no) ==
    message_written(req, session_id, seq_no, varpart_size(req), seg_size(req))

\* the call has run and has written and returned what `written` holds
ReturnsWritten(written) == Returns(written.w, written.out)

apply_serialize_impl ==
    /\ Pending("serialize_impl")
    /\ ReturnsWritten(serialize_impl(codec.input.request, codec.input.session_id,
                                     codec.input.seq_number))

\* ------------------------------------------------------------ message header
\* message::Kind::from_i8: 0 stands for the Protocol error
Kind_from_i8(val) == IF val \in {1, 2, 5} THEN val ELSE 0

\* parse_message_and_sequence_header (message.rs): the number of parts, the
\* kind of the segment and the type of the request or the reply; assert_eq!
\* on the number of segments ends the thread
parse_message_and_sequence_header(rdr) ==
    IF Len(rdr) < 22 THEN Io
    ELSE IF read_le(SubSeq(rdr, 21, 22)) # 1 THEN Parsed(CodecErr("panic"), skip(rdr, 22))
    ELSE IF Len(rdr) < MESSAGE_HEADER_SIZE + 13 THEN Io
    ELSE IF Kind_from_i8(read_le(<<rdr[45]>>)) = 0
    THEN Parsed(CodecErr("Protocol"), skip(rdr, 45))
    ELSE IF Kind_from_i8(read_le(<<rdr[45]>>)) = 1
    THEN (IF Len(rdr) < 48 THEN Io
          ELSE Parsed(CodecOk(<<read_le(SubSeq(rdr, 41, 42)), 1, read_le(<<rdr[46]>>)>>),
                      skip(rdr, MESSAGE_HEADER_SIZE + SEGMENT_HEADER_SIZE)))
    ELSE IF Len(rdr) < 48 THEN Io
    ELSE Parsed(CodecOk(<<read_le(SubSeq(rdr, 41, 42)), rdr[45],
                          read_le(SubSeq(rdr, 47, 48))>>),
                skip(rdr, MESSAGE_HEADER_SIZE + SEGMENT_HEADER_SIZE))

apply_parse_message_and_sequence_header ==
    /\ Pending("parse_message_and_sequence_header")
    /\ ReturnsParsed(parse_message_and_sequence_header(codec.input))

\* ------------------------------------------------------------ specifications
ServerReplyAny == ServerReply(AnyReplies)

\* One caller, a server that is free in what it answers
Next ==
    \/ CallExec(1)
    \/ serialize(1)
    \/ ServerReplyAny
    \/ send_and_receive_detailed(1)
    \/ digest_part(1)
    \/ build_response(1)

Spec == Init /\ [][Next]_vars

\* The replies of a server that answers direct statements as HANA does
StatementReplies ==
    [rt \in RequestType |->
        {[type |-> "Select", parts |-> <<ResultSetPart>>],
         [type |-> "Insert",
          parts |-> <<Part("StatementContext", Some(1)), RowsAffectedPart>>],
         [type |-> "Select", parts |-> <<ErrorPart>>]}]

ServerReplyStatement == ServerReply(StatementReplies)

\* The replies of a server that sends its statement context with or without
\* statement sequence info
SsiReplies ==
    [rt \in RequestType |->
        {[type |-> "Insert", parts |-> p] :
            p \in {q \in SeqsUpTo({RowsAffectedPart} \cup StatementContextParts, MaxParts) :
                      WellFormedParts(q)}}]

ServerReplySsi == ServerReply(SsiReplies)

CallExecSsi(t) == CallExecWithin(t, MaxSsiCalls)

\* One caller that runs a series of direct statements
NextSsi ==
    \/ CallExecSsi(1)
    \/ serialize(1)
    \/ ServerReplySsi
    \/ send_and_receive_detailed(1)
    \/ digest_part(1)
    \/ build_response(1)

SpecSsi == Init /\ [][NextSsi]_vars

\* Callers on several threads share the connection
NextConc ==
    \/ \E t \in Threads :
          \/ CallExec(t)
          \/ serialize(t)
          \/ send_and_receive_detailed(t)
          \/ digest_part(t)
          \/ build_response(t)
    \/ ServerReplyStatement

SpecConc == Init /\ [][NextConc]_vars

ServerReplyPrepared == ServerReply(PreparedReplies)

\* One caller that prepares a statement, uses it and drops it
NextPS ==
    \/ CallPrepare(1)
    \/ try_new_part(1)
    \/ try_new_finish(1)
    \/ \E input \in Inputs : add_batch(1, input)
    \/ \E row \in Inputs : add_row_to_batch(1, row)
    \/ \E input \in Inputs : execute(1, input)
    \/ execute_batch(1)
    \/ drop(1)
    \/ drop_finish(1)
    \/ serialize(1)
    \/ ServerReplyPrepared
    \/ send_and_receive_detailed(1)
    \/ digest_part(1)
    \/ build_response(1)
    \/ StreamBreak

SpecPS == Init /\ [][NextPS]_vars

\* One caller that iterates over a result set and closes it
NextRS ==
    \/ next_row(1)
    \/ fetch_finish(1)
    \/ close(1)
    \/ close_finish(1)
    \/ serialize(1)
    \/ ServerFetch
    \/ ServerClose
    \/ send_and_receive_detailed(1)

SpecRS == InitRS /\ [][NextRS]_vars

\* One reader that reads a LOB to its end
NextLob ==
    \/ \E want \in Wants : read(1, want)
    \/ read_lob_finish(1)
    \/ serialize(1)
    \/ ServerReadLob
    \/ send_and_receive_detailed(1)

SpecLob == InitLob /\ [][NextLob]_vars

\* the reader keeps reading, the connection and the server keep working
SpecLobFair == SpecLob /\ WF_vars(NextLob)

\* The functions of the wire format, each applied to an input
\* lengths on both sides of the steps of the length indicator
FramingLengths == {0, 1, MaxSize, 245, 246, 247, 32767, 32768}

\* byte strings and strings of a given length
bytes_of(n, fill) == [i \in 1..n |-> (i * fill) % 256]
ascii_of(n) == [i \in 1..n |-> 97 + (i % 26)]
repeat(char, n) == [i \in 1..n |-> char]

ByteStrings == {bytes_of(n, fill) : n \in FramingLengths, fill \in {0, 1, 255}}

\* strings of one-byte characters, and of characters of 2, 3 and 6 bytes
\* whose encodings end on both sides of 245 bytes
Strings ==
    {ascii_of(n) : n \in FramingLengths}
        \cup {repeat(char, n) : char \in {233, 8364, 128512},
                                n \in {1, 2, 40, 41, 81, 82, 122, 123}}

\* readers that start with a length indicator
FramedReaders ==
    {<<l8>> \o body : l8 \in {0, 1, 2} \cup 245..255,
                      body \in {<<>>, <<2, 0, 0, 0, 97, 98>>, bytes_of(300, 1)}}

\* the values of the value model
RealBits ==
    [1..4 -> {0, 255}]
        \cup {<<0, 0, 128, 63>>, <<0, 0, 0, 128>>, <<0, 0, 128, 127>>,
              <<0, 0, 128, 255>>, <<254, 255, 255, 255>>, <<255, 255, 255, 127>>}
DoubleBits ==
    {low \o high : low \in [1..4 -> {0, 255}], high \in RealBits}
        \cup {<<0, 0, 0, 0, 0, 0, 240, 63>>, <<0, 0, 0, 0, 0, 0, 240, 127>>,
              <<0, 0, 0, 0, 0, 0, 240, 255>>}
SecondTimeRaws ==
    (0..MaxSize) \cup {60, 61, 3600, 3601, 43200, 86399, 86400, 86401}
HeldValues(type) ==
    CASE type = "TINYINT" -> {<<n>> : n \in {0, 1, 255}}
      [] type = "SMALLINT" -> {<<n>> : n \in {-32768, -1, 0, 1, 32767}}
      [] type = "INT" -> {<<n>> : n \in {-65536, -1, 0, 1, 2147483647}}
      [] type = "BIGINT" -> {<<n>> : n \in {-65536, -1, 0, 1, 2147483647}}
      [] type \in DecimalTypes -> {Zeros(16), <<1>> \o Zeros(13) \o <<64, 48>>}
      [] type = "REAL" -> RealBits
      [] type = "DOUBLE" -> {Zeros(4) \o high : high \in RealBits}
      [] type = "BOOLEAN" -> {<<0>>, <<1>>}
      [] type \in CharTypes -> {<<97>>}
      [] type \in StringTypes -> {<<>>, <<97>>, <<8364, 128512>>, ascii_of(246)}
      [] type \in BinaryTypes -> {<<>>, <<0>>, <<255, 1>>, bytes_of(246, 1)}
      [] type \in {"LONGDATE", "SECONDDATE", "DAYDATE"} -> {<<1>>, <<730000>>}
      [] type = "SECONDTIME" -> {<<0>>, <<1>>, <<86401>>}
HdbValues ==
    {NOTHING}
        \cup UNION {{Plain(type, val) : val \in HeldValues(type)} \cup
                    {Nullable(type, Some(val)) : val \in HeldValues(type)} \cup
                    {Nullable(type, None)} : type \in DOMAIN TypeId \ {"NOTHING"}}

\* what a reply holds for a column
IntReaders ==
    {<<>>, <<0>>, <<0, 1>>, <<1>>, <<1, 5>>, <<1, 5, 0, 0, 0, 0, 0, 0, 0, 9>>,
     <<2, 255, 255, 255, 255, 255, 255, 255, 255>>}
FloatReaders == {bits \o more : bits \in RealBits \cup DoubleBits, more \in {<<>>, <<7>>}}
SecondTimeReaders ==
    {write_le(raw, 4) \o more : raw \in SecondTimeRaws \cup {-1, 86402, 86403},
                                more \in {<<>>, <<7>>}}
ReplyColumns ==
    [p_typecode : {1, 2, 3, 4, 28}, nullable : BOOLEAN, rdr : IntReaders]
        \cup [p_typecode : {6, 7}, nullable : BOOLEAN, rdr : FloatReaders]
        \cup [p_typecode : {64}, nullable : BOOLEAN, rdr : SecondTimeReaders]
        \cup [p_typecode : {8, 12, 29, 33, 47, 99}, nullable : BOOLEAN,
              rdr : {<<l8>> \o bytes_of(300, 1) : l8 \in {0, 2, 246, 255}}]

\* the fields of a parameter row
ParameterValues ==
    {Plain("INT", <<1>>), Nullable("INT", None), Nullable("DOUBLE", None),
     Plain("STRING", <<97>>), Plain("BINARY", <<255, 1>>), Plain("CHAR", <<97>>)}

\* the rows of at most n fields
RECURSIVE RowsUpTo(_)
RowsUpTo(n) ==
    IF n = 0 THEN {<<>>}
    ELSE RowsUpTo(n - 1)
             \cup {Append(row, field) : row \in RowsUpTo(n - 1), field \in ParameterValues}

ParameterRows == RowsUpTo(MaxFields)

\* the arguments of a kind
Arguments(kind) ==
    CASE kind = "ClientInfo" ->
             {Argument(kind, info) :
                 info \in {<<>>, << <<ascii_of(6), ascii_of(MaxSize)>> >>,
                           << <<ascii_of(6), <<8364>> >>, <<ascii_of(1), ascii_of(246)>> >>}}
      [] kind = "Command" ->
             {Argument(kind, ascii_of(n)) : n \in 0..MaxSize}
                 \cup {Argument(kind, <<233, 8364, 128512>>)}
      [] kind = "FetchSize" -> {Argument(kind, <<n>>) : n \in {0, 32, 65536}}
      [] kind = "Parameters" -> {Argument(kind, row) : row \in ParameterRows}
      [] kind = "ReadLobRequest" ->
             {Argument(kind, <<bytes_of(8, 1), bytes_of(8, 0), <<n>> >>) : n \in {1, 200000}}
      [] kind \in {"ResultSetId", "StatementId"} ->
             {Argument(kind, bytes_of(8, fill)) : fill \in {1, 255}}
      [] OTHER -> {Argument(kind, <<>>)}

\* the variants that are emitted and two that are only parsed
ArgumentKinds == EmittedKinds \cup {"Error", "ResultSet"}

\* the arguments that the requests are made of
RequestArguments(kind) ==
    CASE kind = "Command" -> {Argument(kind, ascii_of(n)) : n \in {0, 7, 9}}
      [] kind = "Parameters" ->
             {Argument(kind, row) :
                 row \in {<<Plain("INT", <<1>>), Plain("STRING", <<97>>)>>,
                          <<Plain("BINARY", <<255, 1>>)>>}}
      [] kind = "StatementId" -> {Argument(kind, bytes_of(8, 1))}
      [] OTHER -> {Argument(kind, <<n>>) : n \in {32}}

\* the requests with parts of the given kinds
Requests(kinds) ==
    {[request_type |-> "Execute", auto_commit |-> auto_commit, command_options |-> 0,
      o_par_md |-> TRUE, parts |-> [i \in 1..Len(kinds) |-> Part(kinds[i], args[i])]] :
        auto_commit \in BOOLEAN,
        args \in {args \in [1..Len(kinds) -> UNION {RequestArguments(kinds[i]) :
                                                       i \in 1..Len(kinds)}] :
                     \A i \in 1..Len(kinds) : args[i].kind = kinds[i]}}

\* the headers of a message: the message header with the number of segments,
\* the segment header with the number of parts, the kind and the reply type
header_bytes(no_of_segs, no_of_parts, seg_kind, rt) ==
    bytes_of(8, 1) \o write_le(1, 4) \o write_le(SEGMENT_HEADER_SIZE, 4)
        \o write_le(SEGMENT_HEADER_SIZE, 4) \o write_le(no_of_segs, 2) \o Zeros(10)
        \o write_le(SEGMENT_HEADER_SIZE, 4) \o write_le(0, 4) \o write_le(no_of_parts, 2)
        \o write_le(1, 2) \o write_le(seg_kind, 1) \o <<0>> \o write_le(rt, 2) \o Zeros(8)

\* whole headers and headers that end early
MessageReaders ==
    {SubSeq(header_bytes(no_of_segs, no_of_parts, seg_kind, rt), 1, len) :
        no_of_segs \in {-1, 0, 1, 2, 256}, no_of_parts \in 0..MaxParts,
        seg_kind \in {0, 1, 2, 5}, rt \in {2, 5},
        len \in {0, 21, 22, 44, 47, MESSAGE_HEADER_SIZE + SEGMENT_HEADER_SIZE}}

\* hours, minutes and seconds on both sides of their limits
HmsInputs ==
    {<<hour, minute, second>> :
        hour \in {0, 1, 12, 22, 23, 24, 25, 86402},
        minute \in {0, 1, 30, 59, 60, 61},
        second \in {0, 1, 58, 59, 60, 86402}}

\* the variants of the option bag shape
OptionBagKinds ==
    {"Auth", "ConnectOptions", "CommitOptions", "FetchOptions", "LobFlags",
     "SessionContext", "XatOptions", "ClientContext", "ClientInfo"}

\* arguments with up to MaxFields + 1 entries: the entries of ClientInfo are a
\* key and a value, those of the other bags a key, a type tag and a value
CountArguments ==
    {Argument(kind, [i \in 1..n |-> IF kind = "ClientInfo" THEN <<i, 97>>
                                                          ELSE <<i, 3, 0>>]) :
        kind \in OptionBagKinds \cup {"TransactionFlags", "Command", "Error"},
        n \in 0..(MaxFields + 1)}

\* a function of the wire format and the input it is applied to
InitCodec ==
    /\ InitConnection
    /\ lob_read_length = 0
    /\ rs = NoResultSet
    /\ lob = NoLob
    /\ server = NoServer
    /\ \/ \E n \in 0..MaxSize : codec = CodecCall("padsize", n)
       \/ \E v \in ByteStrings : codec = CodecCall("serialize_length_and_bytes", v)
       \/ \E s \in Strings : codec = CodecCall("serialize_length_and_string", s)
       \/ \E rdr \in FramedReaders :
             \E call \in {"parse_binary", "parse_nullable_binary",
                          "parse_string", "parse_nullable_string"} :
                codec = CodecCall(call, rdr)
       \/ \E tv \in HdbValues : codec = CodecCall("serialize", tv)
       \/ \E column \in ReplyColumns : codec = CodecCall("parse_from_reply", column)
       \/ \E raw \in SecondTimeRaws : codec = CodecCall("as_hms", raw)
       \/ \E arg \in CountArguments : codec = CodecCall("count", arg)
       \/ \E hms \in HmsInputs : codec = CodecCall("from_hms", hms)
       \/ \E rdr \in MessageReaders :
             codec = CodecCall("parse_message_and_sequence_header", rdr)
       \/ \E kind \in ArgumentKinds :
             \E arg \in Arguments(kind), remaining_bufsize \in {0, MaxSize, 65536},
                o_par_md \in BOOLEAN :
                codec = CodecCall("emit", [arg |-> arg, o_par_md |-> o_par_md,
                                           remaining_bufsize |-> remaining_bufsize])
       \/ \E kinds \in UNION {[1..n -> {"Command", "FetchSize", "Parameters",
                                        "StatementId"}] : n \in 0..MaxParts} :
             \E req \in Requests(kinds), seq_no \in {1, 2} :
                codec = CodecCall("serialize_impl",
                                  [request |-> req, session_id |-> bytes_of(8, 1),
                                   seq_number |-> seq_no])

NextCodec ==
    \/ apply_padsize
    \/ apply_serialize_length_and_bytes
    \/ apply_serialize_length_and_string
    \/ read_back_binary
    \/ read_back_string
    \/ apply_parse_binary
    \/ apply_parse_nullable_binary
    \/ apply_parse_string
    \/ apply_parse_nullable_string
    \/ apply_serialize
    \/ read_back_value
    \/ apply_parse_from_reply
    \/ apply_as_hms
    \/ apply_emit
    \/ apply_serialize_impl
    \/ apply_parse_message_and_sequence_header
    \/ apply_count
    \/ apply_from_hms

SpecCodec == InitCodec /\ [][NextCodec]_vars

\* ------------------------------------------------------------ properties
Range(s) == {s[i] : i \in 1..Len(s)}

\* The call of thread t has returned from the general dispatcher: its reply
\* passed assert_no_error and assert_expected_fc and all its parts were digested
Dispatched(t) ==
    /\ pc[t] = "done"
    /\ op[t].name = "exec"
    /\ parsed[t].type # "none"
    /\ \A p \in Range(parsed[t].parts) : p.kind # "Error"
    /\ op[t].expected_fc \in {"None", parsed[t].type}

\* C1: at most one request/reply cycle is in flight: no second request is
\* written between the write of a request and the parse of its reply
C1_OneCycleInFlight ==
    Cardinality({t \in Threads : pc[t] = "parse"}) <= 1

\* C2: the sequence counter is advanced exactly once per request written, and
\* the sequence numbers on the wire are strictly increasing in wire order
C2_SequenceNumbers ==
    /\ seq_number = Len(wire_seqs)
    /\ \A i, j \in 1..Len(wire_seqs) : i < j => wire_seqs[i] < wire_seqs[j]

C2_Witness ==
    /\ Len(wire_seqs) >= 2
    /\ \E t \in Threads : pc[t] = "parse"
    /\ \E t \in Threads : pc[t] = "done" /\ IsOutcome(result[t])

\* C3: a request written after a reply that carried SSI x carries a
\* StatementContext part with SSI x
C3_StatementContextEcho ==
    echo.expected # None => echo.sent = echo.expected

\* C4: a reply with an Error part makes the call fail with DbMessage carrying
\* the server errors of that part, and no part of the reply is dispatched
C4_ErrorBeforeDispatch ==
    \A t \in Threads :
        \A p \in Range(parsed[t].parts) :
            p.kind = "Error" =>
                /\ pc[t] = "done"
                /\ result[t] = [kind |-> "DbMessage", vals |-> <<>>, errs |-> p.arg]
                /\ digested[t] = <<>>
                /\ int_return_values[t] = <<>>

C4_Witness ==
    /\ pc[1] = "done"
    /\ result[1].kind = "DbMessage"
    /\ Len(parsed[1].parts) = 2
    /\ parsed[1].parts[1].kind = "StatementContext"
    /\ parsed[1].parts[2].kind = "Error"

\* C5: the call that follows a call failed with DbMessage is written with the
\* next sequence number, finds the stream at the header of its own reply, and
\* is dispatched to an outcome
C5_UsableAfterDbMessage ==
    \A t \in Threads :
        op[t].after_dbmessage =>
            /\ pc[t] = "parse" =>
                  /\ Len(wire_seqs) >= 2
                  /\ Last(wire_seqs) = wire_seqs[Len(wire_seqs) - 1] + 1
                  /\ inbound # <<>> =>
                        /\ Head(inbound).item = "header"
                        /\ Head(inbound).seq = Last(wire_seqs)
                        /\ Len(inbound) = Head(inbound).n + 1
            /\ parsed[t].type # "none" => parsed[t].seq = Last(wire_seqs)
            /\ (Dispatched(t) /\ parsed[t].type \in ClassifiedReplyTypes)
                  => IsOutcome(result[t])

C5_Witness ==
    /\ op[1].after_dbmessage
    /\ Dispatched(1)
    /\ result[1].kind = "ResultSet"
    /\ Len(result[1].vals) = 1

\* C6: the dispatcher never aborts
C6_NeverAborts ==
    \A t \in Threads : pc[t] # "aborted"

\* The values a reply contributes, in the order of its parts
RECURSIVE ReturnValues(_)
ReturnValues(parts) ==
    IF parts = <<>> THEN <<>>
    ELSE LET p == Head(parts)
         IN  CASE p.kind = "RowsAffected" ->
                    <<[kind |-> "AffectedRows", arg |-> p.arg]>> \o ReturnValues(Tail(parts))
               [] p.kind = "ResultSet" ->
                    <<[kind |-> "ResultSet", arg |-> p.arg]>> \o ReturnValues(Tail(parts))
               [] p.kind = "OutputParameters" ->
                    <<[kind |-> "OutputParameters", arg |-> p.arg]>>
                        \o ReturnValues(Tail(parts))
               [] p.kind = "ResultSetMetadata" /\ Len(parts) >= 2 ->
                    <<[kind |-> "ResultSet",
                       arg |-> <<parts[2].arg[1], 4, p.arg[1], 0>>]>>
                        \o ReturnValues(Tail(Tail(parts)))
               [] OTHER -> ReturnValues(Tail(parts))

\* C7: the outcome is classified by the reply type, and for procedure calls
\* it holds the values of the reply in the order of their parts
C7_Classification ==
    \A t \in Threads :
        Dispatched(t) =>
            LET ty == parsed[t].type
            IN  /\ ty \in {"Select", "SelectForUpdate"} => result[t].kind = "ResultSet"
                /\ ty \in {"Insert", "Update", "Delete"} => result[t].kind = "RowsAffected"
                /\ ty \in {"Ddl", "Commit", "Rollback"} => result[t].kind = "Success"
                /\ ty \in {"DbProcedureCall", "DbProcedureCallWithResult"} =>
                      /\ result[t].kind = "MultipleReturnValues"
                      /\ result[t].vals = ReturnValues(parsed[t].parts)

C7_Witness ==
    /\ Dispatched(1)
    /\ parsed[1].type = "DbProcedureCallWithResult"
    /\ result[1].kind = "MultipleReturnValues"
    /\ Len(result[1].vals) = 2
    /\ result[1].vals[1].kind = "OutputParameters"
    /\ result[1].vals[2].kind = "AffectedRows"

C9_ExplainSucceeds ==
    \A t \in Threads :
        (Dispatched(t) /\ parsed[t].type = "Explain") => IsOutcome(result[t])

\* the parts of a request behind the StatementContext part that Request::new
\* may have put in front
PushedParts(req) == SelectSeq(req.parts, LAMBDA p : p.kind # "StatementContext")

\* C10: execute_batch writes one Execute request with the StatementId part and
\* one Parameters part that holds the rows accepted since the previous
\* execute_batch, in their order; when it has returned, the batch is empty
C10_ExecuteBatch ==
    \A t \in Threads :
        op[t].name = "execute_batch" =>
            /\ (pc[t] \in {"parse", "digest", "done"} /\ request[t] # NoRequest) =>
                  /\ request[t].type = "Execute"
                  /\ PushedParts(request[t]) =
                        <<[kind |-> "StatementId", arg |-> <<ps.statement_id>>],
                          [kind |-> "Parameters", arg |-> batch_log.owed]>>
                  /\ batch_log.sent = batch_log.owed
                  /\ batch_log.owed # <<>>
            /\ pc[t] = "done" => ps.o_batch \in {<<>>, << <<>> >>}

C10_Witness ==
    /\ op[1].name = "execute_batch"
    /\ pc[1] = "done"
    /\ result[1].kind = "RowsAffected"
    /\ Len(wire_seqs) = 3
    /\ batch_log.sent = <<2, 1>>
    /\ ps.o_batch = << <<>> >>

\* a step in which thread t calls one of the named operations of the statement
CallStep(t, names) == Ready(t) /\ ps.state = "live" /\ op'[t].name \in names

\* C11: execute_batch on an empty batch, or on a statement without parameter
\* metadata, returns a Usage error and does nothing else: no request is
\* written, the sequence number stays, the batch and the metadata stay
C11_UsageErrorOnly ==
    [][\A t \in Threads :
          (/\ CallStep(t, {"execute_batch"})
           /\ (ps.o_batch = None \/ ps.o_batch[1] = <<>>))
          => /\ result'[t] = Err("Usage", <<>>)
             /\ pc'[t] = "done"
             /\ request'[t] = NoRequest
             /\ UNCHANGED <<seq_number, outbound, inbound, wire_seqs, calls, ps>>]_vars

C11_Witness ==
    /\ op[1].name = "execute_batch"
    /\ pc[1] = "done"
    /\ result[1] = Err("Usage", <<>>)
    /\ ps.o_batch = Some(<<>>)
    /\ batch_log.sent # <<>>
    /\ seq_number = 2

\* C12: an add_batch or add_row_to_batch either accepts the row and appends it
\* to the batch, or returns an error, writes nothing and leaves the batch as
\* it was; the request of a following execute_batch holds the accepted rows
C12_FailedAddLeavesBatch ==
    [][\A t \in Threads :
          /\ CallStep(t, {"add_batch", "add_row_to_batch"})
             => /\ pc'[t] = "done"
                /\ request'[t] = NoRequest
                /\ UNCHANGED <<seq_number, outbound, inbound, wire_seqs, calls>>
                /\ \/ /\ result'[t] = Ok("Unit", <<>>)
                      /\ ps.o_batch # None
                      /\ \E row \in Inputs \ {0} :
                            ps' = [ps EXCEPT !.o_batch = Some(Append(@[1], row))]
                   \/ /\ result'[t] = Err("Serialization", <<>>)
                      /\ ps' = ps
          /\ (pc[t] = "serialize" /\ op[t].name = "execute_batch")
             => RequestRows(request[t]) = batch_log.accepted]_vars

C12_Witness ==
    /\ op[1].name \in {"add_batch", "add_row_to_batch"}
    /\ pc[1] = "done"
    /\ result[1] = Err("Serialization", <<>>)
    /\ ps.o_batch = Some(<<2>>)
    /\ batch_log.accepted = <<2>>

\* positions of the DropStatementId requests on the wire
DropRequests == {i \in 1..Len(wire_reqs) : wire_reqs[i].type = "DropStatementId"}

C14_StatementContextFirst ==
    [][\A t \in Threads :
          (Ready(t) /\ pc'[t] = "serialize") =>
              LET parts == request'[t].parts
              IN  IF ssi = None
                  THEN \A i \in 1..Len(parts) : parts[i].kind # "StatementContext"
                  ELSE /\ Len(parts) >= 2
                       /\ parts[1] = Part("StatementContext", ssi)
                       /\ \A i \in 2..Len(parts) :
                             parts[i].kind # "StatementContext"]_vars

C14_Witness ==
    /\ pc[1] = "serialize"
    /\ ssi = Some(1)
    /\ request[1].type = "Execute"
    /\ Len(request[1].parts) = 3
    /\ request[1].parts[1] = Part("StatementContext", Some(1))
    /\ request[1].parts[3].kind = "Parameters"

\* the sequence number of the request that thread t wrote last
RequestSeq(t) ==
    LET idx == {i \in 1..Len(wire_reqs) : wire_reqs[i].by = t}
    IN  IF idx = {} THEN 0
        ELSE wire_reqs[CHOOSE i \in idx : \A j \in idx : j <= i].seq

\* C15: a reply returned to a caller carries the sequence number of the
\* request that this caller wrote
C15_MirroredSequenceNumber ==
    \A t \in Threads :
        (parsed[t].type # "none"
         /\ (pc[t] = "digest" \/ (pc[t] = "done" /\ IsOutcome(result[t]))))
            => parsed[t].seq = RequestSeq(t)

\* C16: no reply holds unread parts when it is dropped
C16_NoUnreadParts ==
    \A t \in Threads : unread[t] = <<>>

\* thread t writes a Fetch request in this step
FetchWritten(t) ==
    pc[t] = "serialize" /\ pc'[t] = "parse" /\ request[t].type = "FetchNext"

\* C17: a Fetch is written only for a result set whose row buffer is empty and
\* whose last-packet attribute is clear and that was not closed; a result set
\* that has seen last-packet or was closed stays so, hence no Fetch for it
\* follows
C17_CursorLaw ==
    [][/\ \A t \in Threads :
             FetchWritten(t) =>
                 /\ rs.rows = 0
                 /\ ~is_last_packet(rs.attributes)
                 /\ rs.state = "open"
                 /\ \E i \in 1..Len(request[t].parts) :
                       request[t].parts[i] = Part("ResultSetId", <<rs.id>>)
       /\ is_last_packet(rs.attributes) => is_last_packet(rs'.attributes)
       /\ rs.state = "closed" => rs'.state = "closed"]_vars

C17_Witness ==
    /\ op[1].name = "next_row"
    /\ pc[1] = "done"
    /\ result[1] = Ok("NoRow", <<>>)
    /\ is_last_packet(rs.attributes)
    /\ rs.rows = 0
    /\ Len(wire_reqs) = 2
    /\ \A i \in 1..Len(wire_reqs) : wire_reqs[i].type = "FetchNext"

\* the handle has handed out everything and the server has no more
LobAtEnd == lob.is_last_data /\ lob.buffer = <<>>

\* C18: what the reader has received is the UTF-8 encoding of the stored
\* value, up to where it has read; at the end it is the whole value, whatever
\* the read length and however the server cut the chunks
C18_LobRoundTrip ==
    LET utf8 == cesu8_to_utf8(server.lob)
    IN  /\ Len(lob.sink) <= Len(utf8)
        /\ lob.sink = SubSeq(utf8, 1, Len(lob.sink))
        /\ lob.buffer = SubSeq(server.lob, lob.acc - Len(lob.buffer) + 1, lob.acc)
        /\ LobAtEnd => lob.sink = utf8

C18_Witness ==
    /\ LobAtEnd
    /\ lob_read_length = 1
    /\ server.lob = <<Ascii, HighSurrogate, LowSurrogate, Ascii>>
    /\ lob.sink = <<Ascii, Supplementary, Ascii>>
    /\ Len(wire_reqs) = 4
    /\ result[1] = Ok("Eof", <<>>)

\* thread t writes a ReadLob request in this step
ReadLobWritten(t) ==
    pc[t] = "serialize" /\ pc'[t] = "parse" /\ request[t].type = "ReadLob"

\* the buffer holds at most one chunk and the half character left over from
\* the chunk before
BufferBound ==
    /\ Len(lob.buffer) <= lob_read_length + 1
    /\ cesu8_length(lob.buffer) <= lob.max_size
    /\ lob.max_size <= 3 * (lob_read_length + 1)

\* C19: a ReadLobRequest asks for at most the LOB read length, and is written
\* only when the handle has nothing to hand out and last-data is not set; the
\* buffer never holds more than one chunk and a half character
C19_ReadLengthCap ==
    [][/\ \A t \in Threads :
             ReadLobWritten(t) =>
                 LET arg == Last(request[t].parts).arg
                 IN  /\ Last(request[t].parts).kind = "ReadLobRequest"
                     /\ arg[1] = lob.locator_id
                     /\ arg[2] = lob.acc + 1
                     /\ arg[3] >= 1
                     /\ arg[3] <= lob_read_length
                     /\ ~lob.is_last_data
                     /\ cesu8_to_utf8(complete(lob.buffer)) = <<>>
       /\ BufferBound
       /\ BufferBound']_vars

C19_Witness ==
    /\ lob_read_length = 2
    /\ lob.max_size = 3 * (lob_read_length + 1)
    /\ Len(wire_reqs) = 2
    /\ wire_reqs[1].type = "ReadLob"
    /\ LobAtEnd

\* C20: a reader that keeps reading reaches end-of-stream; at the end a read
\* returns end-of-stream, writes no request and leaves the handle at the end
C20_ReadTerminates ==
    /\ <>(\E t \in Threads : result[t] = Ok("Eof", <<>>) /\ LobAtEnd)
    /\ [][\A t \in Threads :
             (LobAtEnd /\ Ready(t) /\ op'[t].name = "read")
                 => /\ result'[t] = Ok("Eof", <<>>)
                    /\ pc'[t] = "done"
                    /\ LobAtEnd'
                    /\ UNCHANGED <<seq_number, outbound, inbound, wire_seqs,
                                   wire_reqs, calls>>]_vars

C20_Witness ==
    /\ LobAtEnd
    /\ op[1].name = "read"
    /\ pc[1] = "done"
    /\ result[1] = Ok("Eof", <<>>)
    /\ Len(wire_reqs) = 3
    /\ lob.sink = <<Supplementary, Supplementary>>

\* C23: padsize(n) is 0 for n = 0 and 7 - (n - 1) mod 8 otherwise; it is less
\* than 8 and fills n up to a multiple of 8
C23_PaddingLaw ==
    Done("padsize") =>
        LET n == codec.input
        IN  /\ codec.out = (IF n = 0 THEN 0 ELSE 7 - ((n - 1) % 8))
            /\ codec.out \in 0..7
            /\ (n + codec.out) % 8 = 0

C23_Witness ==
    /\ Done("padsize")
    /\ codec.input = 8 * (MaxSize \div 8)
    /\ codec.out = 0

\* C26: a byte string of length n is written as the byte n when n <= 245, as
\* 246 and a 16-bit length when n <= 32767, as 247 and a 32-bit length above;
\* parse_binary gives the same bytes back and leaves nothing in the reader;
\* string_length(s) is the number of bytes written for s
C26_FramingRoundTrip ==
    /\ Done("serialize_length_and_bytes") =>
          LET n == Len(codec.input)
          IN  /\ n <= 245 => codec.w = <<n>> \o codec.input
              /\ (245 < n /\ n <= 32767) =>
                    codec.w = <<246, n % 256, n \div 256>> \o codec.input
              /\ 32767 < n =>
                    codec.w = <<247, n % 256, (n \div 256) % 256,
                                (n \div 65536) % 256, n \div 16777216>>
                                  \o codec.input
    /\ (Done("parse_binary") /\ codec.origin # <<>>) =>
          /\ codec.out = CodecOk(codec.origin[1])
          /\ codec.rest = <<>>
    /\ Done("serialize_length_and_string") =>
          Len(codec.w) = string_length(codec.input)

C26_Witness ==
    /\ Done("parse_binary")
    /\ codec.origin # <<>>
    /\ Len(codec.origin[1]) = 32768
    /\ codec.out.ok
    /\ Len(codec.input) = 32773

\* C27: the length indicator 255 is NULL: the nullable parsers return None and
\* consume that byte only, the others fail with an Impl error; the length
\* indicators 248..254 fail with an Impl error in all of them
C27_NullIndicator ==
    LET l8 == codec.input[1]
    IN  /\ (\/ Done("parse_nullable_binary")
            \/ Done("parse_nullable_string")) =>
              /\ l8 = 255 => /\ codec.out = CodecOk(None)
                             /\ codec.rest = Tail(codec.input)
              /\ l8 \in 248..254 => codec.out = CodecErr("Impl")
        /\ ((\/ Done("parse_binary")
             \/ Done("parse_string")) /\ codec.origin = <<>>) =>
              (l8 \in 248..255 => codec.out = CodecErr("Impl"))

C27_Witness ==
    /\ Done("parse_nullable_binary")
    /\ codec.input[1] = 255
    /\ codec.out = CodecOk(None)
    /\ Len(codec.rest) = 300

\* the value parsed from what was written for the value `tv`, when every null
\* sentinel stands for the None variant
normalized(tv) ==
    IF tv.nullable /\ ~tv.null /\ tv.type \in {"REAL", "DOUBLE"}
       /\ \A i \in 1..Len(tv.val) : tv.val[i] = 255
    THEN Nullable(tv.type, None)
    ELSE tv

\* C24: parsing the bytes written for a value, with the type id and the
\* nullability of the value, gives the value back, a null sentinel as None
C24_ValueRoundTrip ==
    (Done("parse_from_reply") /\ codec.origin # <<>>)
        => codec.out = CodecOk(normalized(codec.origin[1]))

\* C25: a value is written as its type id and its payload: a None of any
\* nullable variant as the type id with bit 128 set and nothing else, a value
\* that is present as the type id below 128 and the payload of its type
C25_TypeIdThenPayload ==
    Done("serialize")
        => LET tv == codec.input
           IN  IF tv.null
               THEN codec.w = <<TypeId[tv.type] + 128>>
               ELSE codec.out.ok
                        => /\ codec.w[1] = TypeId[tv.type]
                           /\ codec.w[1] < 128
                           /\ Tail(codec.w) = payload(tv)

\* C28: TINYINT, SMALLINT, INT, BIGINT and BOOLEAN in a reply start with a
\* null indicator: 0 is None in a nullable column, consuming that byte only,
\* and an Impl error in a column that is not nullable; any other indicator is
\* followed by the bytes of the value
C28_NullIndicatorByte ==
    (/\ Done("parse_from_reply")
     /\ codec.input.p_typecode \in {1, 2, 3, 4, 28}
     /\ codec.input.rdr # <<>>)
        => LET type == TypeOf(codec.input.p_typecode)
               rdr == codec.input.rdr
               width == IF type = "BOOLEAN" THEN 1 ELSE int_width(type)
           IN  IF rdr[1] = 0
               THEN IF codec.input.nullable
                    THEN /\ codec.out = CodecOk(Nullable(type, None))
                         /\ codec.rest = Tail(rdr)
                    ELSE codec.out = CodecErr("Impl")
               ELSE IF Len(rdr) < 1 + width THEN codec.out = CodecErr("Io")
               ELSE /\ codec.out.ok
                    /\ ~codec.out.val.null
                    /\ codec.rest = skip(rdr, 1 + width)

\* the bits of -0.0, +infinity and -infinity as REAL and as DOUBLE
SpecialFloatBits ==
    {<<0, 0, 0, 128>>, <<0, 0, 128, 127>>, <<0, 0, 128, 255>>,
     <<0, 0, 0, 0, 0, 0, 0, 128>>, <<0, 0, 0, 0, 0, 0, 240, 127>>,
     <<0, 0, 0, 0, 0, 0, 240, 255>>}

\* C29: a REAL or DOUBLE of a reply is NULL exactly when all of its bits are
\* set: None in a nullable column, an Impl error otherwise; every other
\* pattern, those of -0.0 and of the infinities among them, is a value
C29_FloatNullSentinel ==
    (/\ Done("parse_from_reply")
     /\ codec.input.p_typecode \in {6, 7}
     /\ Len(codec.input.rdr) >= (IF codec.input.p_typecode = 6 THEN 4 ELSE 8))
        => LET type == TypeOf(codec.input.p_typecode)
               bits == SubSeq(codec.input.rdr, 1, IF type = "REAL" THEN 4 ELSE 8)
               all_set == \A i \in 1..Len(bits) : bits[i] = 255
           IN  /\ codec.input.nullable
                    => (codec.out = CodecOk(Nullable(type, None)) <=> all_set)
               /\ ~codec.input.nullable => (codec.out = CodecErr("Impl") <=> all_set)
               /\ ~all_set
                    => codec.out = CodecOk(Present(type, codec.input.nullable, bits))
               /\ bits \in SpecialFloatBits => codec.out.ok /\ ~codec.out.val.null

\* -infinity has been parsed as a DOUBLE of a nullable column
C29_Witness ==
    /\ Done("parse_from_reply")
    /\ codec.input.p_typecode = 7
    /\ codec.input.nullable
    /\ codec.input.rdr = <<0, 0, 0, 0, 0, 0, 240, 255>>
    /\ codec.out = CodecOk(Nullable("DOUBLE", Some(codec.input.rdr)))

\* C30: the raw values 0 and 1 of a SECONDTIME are 00:00:00 and 86_401 is
\* 23:59:59; 86_402 is NULL: None in a nullable column, an error otherwise
C30_SecondTimeBounds ==
    /\ Done("as_hms")
        => /\ codec.input \in {0, 1} => codec.out = <<0, 0, 0>>
           /\ codec.input = 86401 => codec.out = <<23, 59, 59>>
    /\ (/\ Done("parse_from_reply")
        /\ codec.input.p_typecode = 64
        /\ Len(codec.input.rdr) >= 4
        /\ SubSeq(codec.input.rdr, 1, 4) = write_le(NULL_REPRESENTATION, 4))
        => IF codec.input.nullable
           THEN codec.out = CodecOk(Nullable("SECONDTIME", None))
           ELSE ~codec.out.ok

\* C21: the bytes that serialize_impl writes for a request are the 32 bytes
\* of the message header and varpart_size, which is seg_size: the 24 bytes of
\* the segment header and the padded sizes of the parts
C21_TotalBytesWritten ==
    (Done("serialize_impl") /\ codec.out.ok)
        => LET req == codec.input.request
           IN  /\ Len(codec.w) = varpart_size(req) + MESSAGE_HEADER_SIZE
               /\ varpart_size(req) = seg_size(req)
               /\ seg_size(req)
                      = SEGMENT_HEADER_SIZE
                            + sum([i \in 1..Len(req.parts) |->
                                      part_size(req.parts[i], TRUE, req.o_par_md)])

\* C22: an argument that is emitted is written as the bytes of its size
\* without padding and zero bytes up to its size with padding, and the
\* remaining buffer size is returned reduced by the size with padding
C22_EmitWritesSize ==
    (Done("emit") /\ codec.out.ok)
        => LET size == argument_size(codec.input.arg, FALSE, codec.input.o_par_md)
               padded == argument_size(codec.input.arg, TRUE, codec.input.o_par_md)
           IN  /\ padded = size + padsize(size)
               /\ Len(codec.w) = padded
               /\ \A i \in (size + 1)..Len(codec.w) : codec.w[i] = 0
               /\ codec.input.remaining_bufsize >= padded
                      => codec.out.val = write_le(codec.input.remaining_bufsize - padded, 4)

\* C31: a reply whose header declares a number of segments other than 1 is
\* rejected with a Protocol error that is returned to the caller
C31_SegmentCountRejected ==
    (/\ Done("parse_message_and_sequence_header")
     /\ Len(codec.input) >= 22
     /\ read_le(SubSeq(codec.input, 21, 22)) # 1)
        => codec.out = CodecErr("Protocol")

\* C32: for every argument of the option bag shape, ClientInfo included,
\* count() is the number of entries that the argument holds
C32_CountIsNumberOfEntries ==
    (/\ Done("count")
     /\ codec.input.kind \in OptionBagKinds)
        => codec.out = CodecOk(<<Len(codec.input.val)>>)

\* C34: the general dispatcher processes the parts of a reply in reverse
\* insertion order: the part that the server placed last is consumed first
C34_LastPartConsumedFirst ==
    \A t \in Threads :
        (/\ op[t].name = "exec"
         /\ parsed[t].type # "none"
         /\ digested[t] # <<>>)
            => digested[t][1] = Last(parsed[t].parts)

\* C35: a ResultSetMetadata part with the ResultSetId part next to it: the
\* dispatcher consumes both and contributes one open ResultSet with that id and
\* that metadata, without buffered rows and with attributes that mark it
\* neither as last packet nor as closed
C35_MetadataAndIdMakeResultSet ==
    [][\A t \in Threads :
          (/\ pc[t] = "digest"
           /\ Len(reply[t].parts) >= 2
           /\ Last(reply[t].parts).kind = "ResultSetMetadata"
           /\ Last(Front(reply[t].parts)).kind = "ResultSetId"
           /\ digested'[t] # digested[t])
              => /\ pc'[t] = "digest"
                 /\ reply'[t].parts = Front(Front(reply[t].parts))
                 /\ Len(int_return_values'[t]) = Len(int_return_values[t]) + 1
                 /\ Front(int_return_values'[t]) = int_return_values[t]
                 /\ LET v == Last(int_return_values'[t])
                    IN  /\ v.kind = "ResultSet"
                        /\ v.arg[1] = Last(Front(reply[t].parts)).arg[1]
                        /\ v.arg[3] = Last(reply[t].parts).arg[1]
                        /\ v.arg[4] = 0
                        /\ v.arg[2] % 2 = 0
                        /\ (v.arg[2] \div 16) % 2 = 0]_vars

\* a call has returned a result set that the dispatcher made of the metadata,
\* which the server sent first, and the id
C35_Witness ==
    /\ pc[1] = "done"
    /\ Len(parsed[1].parts) = 2
    /\ parsed[1].parts[1].kind = "ResultSetMetadata"
    /\ parsed[1].parts[2].kind = "ResultSetId"
    /\ result[1].kind = "ResultSet"
    /\ result[1].vals = <<InternalReturnValue("ResultSet", <<8, 4, 3, 0>>)>>

\* the transaction state that the flags of a part leave behind: the one of the
\* last flag that names a state
StateAfterFlags(state, vec) ==
    LET naming == {i \in 1..Len(vec) :
                      vec[i] \in {WriteTransactionStarted, Committed, RolledBack}}
    IN  IF naming = {} THEN state
        ELSE LET last == CHOOSE i \in naming : \A j \in naming : j <= i
             IN  CASE vec[last] = WriteTransactionStarted -> "OpenWithWrite"
                   [] vec[last] = Committed -> "Committed"
                   [] OTHER -> "RolledBack"

\* C33: when a TransactionFlags part is dispatched, every flag of it is
\* applied to the transaction state of the connection in the order received:
\* with the flags write-transaction-started, committed of the reply to a
\* commit the state is committed, not write-transaction-started
C33_TransactionFlagsApplied ==
    [][\A t \in Threads :
          (/\ pc[t] = "digest"
           /\ reply[t].parts # <<>>
           /\ Last(reply[t].parts).kind = "TransactionFlags"
           /\ digested'[t] # digested[t])
              => ta_state' = StateAfterFlags(ta_state, Last(reply[t].parts).arg)]_vars

\* exec of a commit has returned Success for a reply with transaction flags,
\* and the connection is in the state committed
C33_Witness ==
    /\ pc[1] = "done"
    /\ op[1].name = "exec"
    /\ parsed[1].type = "Commit"
    /\ \E p \in Range(parsed[1].parts) :
          p.kind = "TransactionFlags" /\ Last(p.arg) = Committed
    /\ result[1].kind = "Success"
    /\ ta_state = "Committed"

\* the positions of the descriptors of direction IN or INOUT
InputPositions(metadata) ==
    {i \in 1..Len(metadata) : metadata[i] \in {Direction_IN, Direction_INOUT}}

\* s holds the descriptors of metadata at the given positions, in their order
IsSelection(s, metadata, positions) ==
    /\ Len(s) = Cardinality(positions)
    /\ \A i \in positions :
          s[Cardinality({j \in positions : j <= i})] = metadata[i]

\* C36: the input descriptors of a prepared statement are the parameter
\* descriptors of direction IN or INOUT in their original order, and they are
\* absent when the reply held no ParameterMetadata or no descriptor is IN or
\* INOUT
C36_InputDescriptors ==
    ps.state \in {"live", "dropped"} =>
        IF ps.o_par_md = None \/ InputPositions(ps.o_par_md[1]) = {}
        THEN ps.o_input_md = None
        ELSE /\ ps.o_input_md # None
             /\ IsSelection(ps.o_input_md[1], ps.o_par_md[1],
                            InputPositions(ps.o_par_md[1]))

\* a statement prepared with an INOUT, an OUT and an IN parameter
C36_Witness ==
    /\ ps.state = "live"
    /\ ps.o_par_md = Some(<<Direction_INOUT, Direction_OUT, Direction_IN>>)
    /\ ps.o_input_md = Some(<<Direction_INOUT, Direction_IN>>)

\* the statement has no parameter of direction IN or INOUT
NoInputParameters ==
    ps.o_par_md = None \/ InputPositions(ps.o_par_md[1]) = {}

\* C40: the batch of a prepared statement exists exactly when its parameter
\* metadata exists, and a batch with rows implies input descriptors; on a
\* statement without IN or INOUT parameters add_batch and add_row_to_batch
\* fail with a Serialization error and leave the batch empty, and
\* execute_batch fails with a Usage error
C40_BatchAndMetadata ==
    /\ [](ps.state = "live" =>
             /\ (ps.o_batch # None) <=> (ps.o_par_md # None)
             /\ (ps.o_batch # None /\ ps.o_batch[1] # <<>>) => ps.o_input_md # None)
    /\ [][\A t \in Threads :
             /\ (CallStep(t, {"add_batch", "add_row_to_batch"}) /\ NoInputParameters)
                => /\ pc'[t] = "done"
                   /\ result'[t] = Err("Serialization", <<>>)
                   /\ ps' = ps
                   /\ ps.o_batch \in {None, Some(<<>>)}
             /\ (CallStep(t, {"execute_batch"}) /\ NoInputParameters)
                => /\ pc'[t] = "done"
                   /\ result'[t] = Err("Usage", <<>>)
                   /\ ps' = ps]_vars

\* add_batch has failed on a statement whose only parameter is an OUT parameter
C40_Witness ==
    /\ ps.state = "live"
    /\ ps.o_par_md = Some(<<Direction_OUT>>)
    /\ ps.o_batch = Some(<<>>)
    /\ op[1].name = "add_batch"
    /\ pc[1] = "done"
    /\ result[1] = Err("Serialization", <<>>)

\* C37: from_hms(h, m, s) fails when h > 23, m > 59 or s > 59; otherwise the
\* raw value is h * 3600 + m * 60 + s + 1, as_hms of it gives back (h, m, s),
\* and the raw value is not the NULL representation 86_402
C37_FromHmsRoundTrip ==
    Done("from_hms") =>
        LET h == codec.input[1]
            m == codec.input[2]
            s == codec.input[3]
        IN  IF h > 23 \/ m > 59 \/ s > 59
            THEN ~codec.out.ok
            ELSE /\ codec.out.ok
                 /\ codec.out.val[1] = h * 3600 + m * 60 + s + 1
                 /\ SubSeq(codec.out.val, 2, 4) = codec.input
                 /\ codec.out.val[1] # 86402

\* 23:59:59 has been stored as 86_400 and read back
C37_Witness ==
    /\ Done("from_hms")
    /\ codec.input = <<23, 59, 59>>
    /\ codec.out = CodecOk(<<86400, 23, 59, 59>>)

\* the StatementContext parts among the given parts
StatementContexts(parts) ==
    {i \in 1..Len(parts) : parts[i].kind = "StatementContext"}

\* C39: a StatementContext part without statement sequence info that the
\* general dispatcher digests sets the stored SSI of the connection to none,
\* and the request built next holds no StatementContext part, also when an
\* earlier reply had supplied an SSI
C39_EmptyStatementContextClearsSsi ==
    [][\A t \in Threads :
          /\ (/\ pc[t] = "digest"
              /\ reply[t].parts # <<>>
              /\ Last(reply[t].parts) = Part("StatementContext", None)
              /\ digested'[t] # digested[t])
                 => ssi' = None
          /\ (/\ pc[t] = "done"
              /\ op[t].name = "exec"
              /\ \E i \in StatementContexts(digested[t]) : digested[t][i].arg = None
              /\ pc'[t] = "serialize")
                 => StatementContexts(request'[t].parts) = {}]_vars

\* the third request holds no StatementContext part, the second one, answered
\* with a StatementContext part without SSI, held the SSI of the first reply
C39_Witness ==
    /\ pc[1] = "serialize"
    /\ calls = 3
    /\ StatementContexts(request[1].parts) = {}
    /\ ssi = None
    /\ echo.sent = Some(1)
    /\ echo.pending = None
    /\ Len(wire_reqs) = 2

\* C38: for every HdbValue v, size(v) succeeds exactly when serialize(v)
\* succeeds, and serialize(v) then writes exactly size(v) bytes: the type id
\* and the payload
C38_SizeIsBytesSerialized ==
    Done("serialize") =>
        /\ (value_size(codec.input) # -1) <=> codec.out.ok
        /\ codec.out.ok => Len(codec.w) = value_size(codec.input)
====
